---- MODULE Spec2Model ----
(***************************************************************************)
(* A model of the economy engine of astrbot_plugin_linbot: the SQLite      *)
(* ledger (table users and the four append-only logs) and the handlers     *)
(* that mutate it (daily_checkin, work, deposit, withdraw, transfer,       *)
(* rob_user, apply_daily_interest).                                        *)
(*                                                                         *)
(* Time is counted in hours.  CURRENT_TIMESTAMP of SQLite is the UTC       *)
(* clock `now`; date.today() and datetime.now() of Python are the local    *)
(* clock now + tz.  A DATE column holds a day number, a DATETIME column    *)
(* an hour number.  Job names are written in pinyin.                       *)
(***************************************************************************)
EXTENDS Integers, Sequences, FiniteSets, TLC

VARIABLES
    users,              \* table users: user_id -> row
    bank_transactions,  \* table bank_transactions, in id order
    work_records,       \* table work_records, in id order
    checkin_records,    \* table checkin_records, in id order
    robbery_records,    \* table robbery_records, in id order
    now,                \* the UTC clock, in hours
    tz,                 \* offset of the host's local clock from UTC, in hours
    config,             \* game_system_settings handed to the managers
    conns,              \* the calls in flight, each on its own connection
    snap,               \* the ledger at the start (of the run, of the calls in flight)
    shown               \* what the last call that reports to the user returned

vars == <<users, bank_transactions, work_records, checkin_records,
          robbery_records, now, tz, config, conns, snap, shown>>

tables == <<users, bank_transactions, work_records, checkin_records,
            robbery_records>>

-----------------------------------------------------------------------------
(* Constants of the managers.                                              *)

HoursPerDay == 24
NULL == -1

base_reward == 100
random_bonus_min == 0
random_bonus_max == 50

min_deposit == 10
min_withdraw == 10
max_deposit == 100000
max_withdraw == 50000
daily_withdraw_limit == 200000

daily_work_limit == 10

\* game_system_settings: rates are in hundredths of a percent, so that the
\* defaults 0.1 and 0.15 are 10 and 15; hours and multipliers are whole.
DefaultConfig ==
    [daily_work_limit |-> 10,
     work_cooldown_multiplier |-> 1,
     work_experience_multiplier |-> 1,
     bank_interest_rate |-> 10,
     vip_threshold |-> 10000,
     bank_vip_interest_rate |-> 15,
     robbery_min_amount |-> 50,
     robbery_max_amount |-> 300,
     robbery_cooldown_hours |-> 6,
     robbery_level_requirement |-> 5,
     robbery_protection_amount |-> 100,
     robbery_failure_penalty |-> 20]

\* A configuration under which a few calls reach every branch: one job
\* lifts a user to level 2, robbery opens at level 2, interest is 10% and
\* 20% a day with the VIP tier at 200, a caught robber pays up to 100.
GameConfig ==
    [DefaultConfig EXCEPT !.work_experience_multiplier = 20,
                         !.bank_interest_rate = 1000,
                         !.vip_threshold = 200,
                         !.bank_vip_interest_rate = 2000,
                         !.robbery_level_requirement = 2,
                         !.robbery_failure_penalty = 100]

-----------------------------------------------------------------------------
(* Bounds of the model and the inputs the calls are drawn from.            *)

MaxNewRecords == 2
MaxDays == 2

Users == {"u1", "u2"}

\* the display name a user is seen with, and the names it may change to
NameOf(user_id) == IF user_id = "u1" THEN "A" ELSE "B"
NamesOf(user_id) == IF user_id = "u1" THEN {"A", "A2"} ELSE {"B"}

TickSteps == {HoursPerDay}
RandomBonusDraws == {random_bonus_min, random_bonus_max}
DepositAmounts == {5, 100, 100001}
WithdrawAmounts == {5, 100, 50001}
TransferAmounts == {5, 100, 100001}
JobInputs == {"banzhuan", "bianlidianyuan", "nosuchjob"}

-----------------------------------------------------------------------------
(* The clocks.                                                             *)

\* datetime.now(): the local clock
datetime_now(t, z) == t + z

\* date.today(): the local calendar day
date_today(t, z) == (t + z) \div HoursPerDay

\* SQL date(ts) of a stored CURRENT_TIMESTAMP
sql_date(ts) == ts \div HoursPerDay

-----------------------------------------------------------------------------
(* The ledger as one value, and the rows of its tables.                    *)

DB == [users |-> users,
       bank_transactions |-> bank_transactions,
       work_records |-> work_records,
       checkin_records |-> checkin_records,
       robbery_records |-> robbery_records]

EmptyDB == [users |-> <<>>,
            bank_transactions |-> <<>>,
            work_records |-> <<>>,
            checkin_records |-> <<>>,
            robbery_records |-> <<>>]

\* INSERT INTO users (user_id, username): the column defaults, created_at
\* and updated_at being CURRENT_TIMESTAMP
NewUser(username, rowid, t) ==
    [rowid |-> rowid, username |-> username, money |-> 0, bank_money |-> 0,
     total_earned |-> 0, level |-> 1, exp |-> 0, last_checkin |-> NULL, checkin_streak |-> 0,
     total_checkin |-> 0, last_work_time |-> NULL, work_count_today |-> 0,
     rob_count_today |-> 0, robbed_count_today |-> 0,
     created_at |-> t, updated_at |-> t]

TotalRecords(d) == Len(d.bank_transactions) + Len(d.work_records)
                   + Len(d.checkin_records) + Len(d.robbery_records)

\* INSERT OR REPLACE: an existing row is reset to the column defaults
EnsureReplaces(d, user_id, username, t) ==
    LET rowid == IF user_id \in DOMAIN d.users THEN d.users[user_id].rowid
                 ELSE Cardinality(DOMAIN d.users) + 1
    IN [d EXCEPT !.users =
            (user_id :> NewUser(username, rowid, t)) @@ @]

\* INSERT OR IGNORE INTO users (checkin, work and bank managers)
ensure_user_exists(d, user_id, username, t) ==
    IF user_id \in DOMAIN d.users
    THEN d
    ELSE [d EXCEPT !.users =
              @ @@ (user_id :> NewUser(username, Cardinality(DOMAIN @) + 1, t))]

\* an UPDATE of username that lacks the user_id = ? of its WHERE clause
RobEnsureRenamesAll(d, user_id, username, t) ==
    LET d1 == ensure_user_exists(d, user_id, username, t)
    IN [d1 EXCEPT !.users =
            [u \in DOMAIN @ |->
                IF @[u].username # username
                THEN [@[u] EXCEPT !.username = username, !.updated_at = t]
                ELSE @[u]]]

\* The robbery manager's variant also refreshes the stored username:
\* UPDATE users SET username = ?, updated_at = CURRENT_TIMESTAMP
\* WHERE user_id = ? AND username != ?
rob_ensure_user_exists(d, user_id, username, t) ==
    LET d1 == ensure_user_exists(d, user_id, username, t)
    IN IF d1.users[user_id].username # username
       THEN [d1 EXCEPT !.users[user_id].username = username,
                       !.users[user_id].updated_at = t]
       ELSE d1

\* What a call returns: the ledger it leaves and the outcome it reports.
\* nothing was reported yet
NoResult == [kind |-> "none"]

Out(d, result) == [db |-> d, result |-> result]

-----------------------------------------------------------------------------
(* Checkin engine.                                                         *)

\* the scan stopped at the first tier reached
BonusFirstTier(consecutive_days) ==
    IF consecutive_days >= 3 THEN 50 ELSE 0

\* the streak tiers, scanned in the order of the dict: the last tier reached wins
consecutive_bonus(consecutive_days) ==
    IF consecutive_days >= 30 THEN 1000
    ELSE IF consecutive_days >= 15 THEN 500
    ELSE IF consecutive_days >= 7 THEN 200
    ELSE IF consecutive_days >= 3 THEN 50
    ELSE 0

calculate_reward(consecutive_days, random_bonus) ==
    [base |-> base_reward,
     random |-> random_bonus,
     consecutive |-> consecutive_bonus(consecutive_days),
     total |-> base_reward + random_bonus + consecutive_bonus(consecutive_days)]

has_checkin_record(d, user_id, day) ==
    \E i \in 1..Len(d.checkin_records) :
        /\ d.checkin_records[i].user_id = user_id
        /\ d.checkin_records[i].checkin_date = day

\* the streak a checkin on `today` gives; 0 stands for the same-day return
\* a streak that also grows over a gap of several days
StreakOverGap(last_checkin, current_streak, today) ==
    IF last_checkin = NULL THEN 1
    ELSE IF today - last_checkin >= 1 THEN current_streak + 1
    ELSE IF today - last_checkin = 0 THEN 0
    ELSE 1

new_streak(last_checkin, current_streak, today) ==
    IF last_checkin = NULL THEN 1
    ELSE IF today - last_checkin = 1 THEN current_streak + 1
    ELSE IF today - last_checkin = 0 THEN 0
    ELSE 1

\* a checkin stored under the day before the one that was looked up
CheckinStoresYesterday(d, user_id, today, streak, reward_total, t) ==
    [d EXCEPT
       !.users[user_id].money = @ + reward_total,
       !.users[user_id].checkin_streak = streak,
       !.users[user_id].total_checkin = @ + 1,
       !.users[user_id].last_checkin = today - 1,
       !.users[user_id].updated_at = t,
       !.checkin_records = Append(@,
           [user_id |-> user_id, checkin_date |-> today - 1,
            reward_money |-> reward_total, consecutive_days |-> streak])]

\* the UPDATE of users and the INSERT INTO checkin_records
checkin_apply(d, user_id, today, streak, reward_total, t) ==
    [d EXCEPT
       !.users[user_id].money = @ + reward_total,
       !.users[user_id].checkin_streak = streak,
       !.users[user_id].total_checkin = @ + 1,
       !.users[user_id].last_checkin = today,
       !.users[user_id].updated_at = t,
       !.checkin_records = Append(@,
           [user_id |-> user_id, checkin_date |-> today,
            reward_money |-> reward_total, consecutive_days |-> streak])]

daily_checkin(d, user_id, username, random_bonus, today, t) ==
    LET d1 == ensure_user_exists(d, user_id, username, t)
        row == d1.users[user_id]
        streak == new_streak(row.last_checkin, row.checkin_streak, today)
        reward == calculate_reward(streak, random_bonus)
    IN IF has_checkin_record(d1, user_id, today)
       THEN Out(d1, "AlreadyCheckedIn")
       ELSE IF streak = 0
       THEN Out(d1, "AlreadyCheckedIn")
       ELSE Out(checkin_apply(d1, user_id, today, streak, reward.total, t), "ok")

-----------------------------------------------------------------------------
(* Bank engine.                                                            *)

TxRecord(user_id, type, amount, before, after, t) ==
    [user_id |-> user_id, transaction_type |-> type, amount |-> amount,
     balance_before |-> before, balance_after |-> after, created_at |-> t]

\* a deposit or a withdraw that records the transaction but leaves the cash
\* where it was
BankApplyKeepsCash(d, user_id, type, amount, new_money, current_bank_money, new_bank_money, t) ==
    [d EXCEPT
       !.users[user_id].bank_money = new_bank_money,
       !.users[user_id].updated_at = t,
       !.bank_transactions = Append(@,
           TxRecord(user_id, type, amount, current_bank_money,
                    new_bank_money, t))]

\* the two statements of a deposit or a withdraw: the balances computed
\* from the row that was read, and the record of the savings before and after
bank_apply(d, user_id, type, amount, new_money, current_bank_money, new_bank_money, t) ==
    [d EXCEPT
       !.users[user_id].money = new_money,
       !.users[user_id].bank_money = new_bank_money,
       !.users[user_id].updated_at = t,
       !.bank_transactions = Append(@,
           TxRecord(user_id, type, amount, current_bank_money,
                    new_bank_money, t))]

deposit(d, user_id, username, amount, t) ==
    LET d1 == ensure_user_exists(d, user_id, username, t)
        current_money == d1.users[user_id].money
        current_bank_money == d1.users[user_id].bank_money
        new_money == current_money - amount
        new_bank_money == current_bank_money + amount
    IN IF amount < min_deposit THEN Out(d1, "BelowMinimum")
       ELSE IF amount > max_deposit THEN Out(d1, "AboveMaximum")
       ELSE IF current_money < amount THEN Out(d1, "InsufficientCash")
       ELSE Out(bank_apply(d1, user_id, "deposit", amount, new_money,
                           current_bank_money, new_bank_money, t),
                "ok")

RECURSIVE SumWithdraw(_, _, _, _)
SumWithdraw(txs, user_id, day, i) ==
    IF i = 0 THEN 0
    ELSE SumWithdraw(txs, user_id, day, i - 1)
         + (IF /\ txs[i].user_id = user_id
               /\ txs[i].transaction_type = "withdraw"
               /\ sql_date(txs[i].created_at) = day
            THEN txs[i].amount ELSE 0)

\* SELECT SUM(amount) ... WHERE transaction_type = 'withdraw' AND date(created_at) = today
today_withdraw(d, user_id, today) ==
    SumWithdraw(d.bank_transactions, user_id, today, Len(d.bank_transactions))

withdraw(d, user_id, username, amount, t, z) ==
    LET d1 == ensure_user_exists(d, user_id, username, t)
        current_money == d1.users[user_id].money
        current_bank_money == d1.users[user_id].bank_money
        new_money == current_money + amount
        new_bank_money == current_bank_money - amount
    IN IF amount < min_withdraw THEN Out(d1, "BelowMinimum")
       ELSE IF amount > max_withdraw THEN Out(d1, "AboveMaximum")
       ELSE IF today_withdraw(d1, user_id, date_today(t, z)) + amount
               > daily_withdraw_limit
       THEN Out(d1, "DailyLimitExceeded")
       ELSE IF current_bank_money < amount THEN Out(d1, "InsufficientSavings")
       ELSE Out(bank_apply(d1, user_id, "withdraw", amount, new_money,
                           current_bank_money, new_bank_money, t),
                "ok")

\* the four statements of a transfer, in the order of the code
transfer_update_from(d, from_user_id, new_from_balance, t) ==
    [d EXCEPT !.users[from_user_id].bank_money = new_from_balance,
              !.users[from_user_id].updated_at = t]

\* a transfer that credits the recipient's cash instead of the savings
TransferCreditsCash(d, to_user_id, new_to_balance, t) ==
    [d EXCEPT !.users[to_user_id].money = new_to_balance,
              !.users[to_user_id].updated_at = t]

transfer_update_to(d, to_user_id, new_to_balance, t) ==
    [d EXCEPT !.users[to_user_id].bank_money = new_to_balance,
              !.users[to_user_id].updated_at = t]

transfer_insert_out(d, from_user_id, amount, from_balance, t) ==
    [d EXCEPT !.bank_transactions = Append(@,
        TxRecord(from_user_id, "transfer_out", amount, from_balance,
                 from_balance - amount, t))]

\* a transfer_in record whose balance_after repeats balance_before
TransferInStale(d, to_user_id, amount, to_balance, t) ==
    [d EXCEPT !.bank_transactions = Append(@,
        TxRecord(to_user_id, "transfer_in", amount, to_balance, to_balance, t))]

transfer_insert_in(d, to_user_id, amount, to_balance, t) ==
    [d EXCEPT !.bank_transactions = Append(@,
        TxRecord(to_user_id, "transfer_in", amount, to_balance,
                 to_balance + amount, t))]

transfer_apply(d, from_user_id, to_user_id, amount, from_balance, to_balance, t) ==
    transfer_insert_in(
        transfer_insert_out(
            transfer_update_to(
                transfer_update_from(d, from_user_id, from_balance - amount, t),
                to_user_id, to_balance + amount, t),
            from_user_id, amount, from_balance, t),
        to_user_id, amount, to_balance, t)

transfer(d, from_user_id, to_user_id, from_username, to_username, amount, t) ==
    LET d1 == ensure_user_exists(
                  ensure_user_exists(d, from_user_id, from_username, t),
                  to_user_id, to_username, t)
        from_balance == d1.users[from_user_id].bank_money
        to_balance == d1.users[to_user_id].bank_money
    IN IF from_user_id = to_user_id THEN Out(d, "SelfTransfer")
       ELSE IF amount < min_deposit THEN Out(d, "BelowMinimum")
       ELSE IF amount > max_deposit THEN Out(d, "AboveMaximum")
       ELSE IF from_balance < amount THEN Out(d1, "InsufficientSavings")
       ELSE IF to_user_id \notin DOMAIN d1.users
       THEN Out(d1, "RecipientNotFound")
       ELSE Out(transfer_apply(d1, from_user_id, to_user_id, amount,
                               from_balance, to_balance, t),
                "ok")

\* The rate is the configured percentage divided by 100 in binary floating
\* point and bank_money * rate is a floating point product: where the exact
\* product is a whole number the computed one may fall just below it. These
\* are the balances up to 400000 where it does at a rate of 0.03 percent;
\* at 0.1, 0.15, 10 and 20 percent there are none.
ProductRoundsBelow(bank_money, rate) ==
    /\ rate = 3
    /\ bank_money \in
          {10000, 20000, 40000, 50000, 70000, 80000, 90000, 100000, 140000,
           150000, 160000, 170000, 180000, 190000, 200000, 210000, 280000,
           290000, 300000, 310000, 320000, 330000, 340000, 350000, 360000,
           370000, 380000, 390000, 400000}

\* int(bank_money * rate), the rate in hundredths of a percent
interest_of(bank_money, cfg) ==
    LET is_vip == bank_money >= cfg.vip_threshold
        rate == IF is_vip THEN cfg.bank_vip_interest_rate
                ELSE cfg.bank_interest_rate
    IN (bank_money * rate) \div 10000
       - (IF ProductRoundsBelow(bank_money, rate) THEN 1 ELSE 0)

\* the UPDATE and the INSERT of one account's accrual
interest_apply(d, user_id, interest, bank_money, t) ==
    [d EXCEPT
       !.users[user_id].bank_money = bank_money + interest,
       !.users[user_id].updated_at = t,
       !.bank_transactions = Append(@,
           TxRecord(user_id, "interest", interest, bank_money,
                    bank_money + interest, t))]

\* the user whose row has this rowid (SELECT scans the table in rowid order)
UserAt(d, k) == CHOOSE u \in DOMAIN d.users : d.users[u].rowid = k

\* rows 1..k of the SELECT processed against the balances it returned (d0)
RECURSIVE AccrueUpTo(_, _, _, _, _)
AccrueUpTo(d0, d, k, cfg, t) ==
    IF k = 0 THEN d
    ELSE LET prev == AccrueUpTo(d0, d, k - 1, cfg, t)
             user_id == UserAt(d0, k)
             bank_money == d0.users[user_id].bank_money
             interest == interest_of(bank_money, cfg)
         IN IF bank_money > 0 /\ interest > 0
            THEN interest_apply(prev, user_id, interest, bank_money, t)
            ELSE prev

apply_daily_interest(d, cfg, t) ==
    Out(AccrueUpTo(d, d, Cardinality(DOMAIN d.users), cfg, t), "ok")

-----------------------------------------------------------------------------
(* Leveling model and work engine.                                         *)

jobs ==
    [banzhuan |->
        [base_salary |-> 80, salary_min |-> 60, salary_max |-> 120,
         level_required |-> 1, cooldown_hours |-> 1, exp_reward |-> 5],
     songwaimai |->
        [base_salary |-> 120, salary_min |-> 80, salary_max |-> 180,
         level_required |-> 1, cooldown_hours |-> 1, exp_reward |-> 8],
     bianlidianyuan |->
        [base_salary |-> 150, salary_min |-> 100, salary_max |-> 200,
         level_required |-> 2, cooldown_hours |-> 2, exp_reward |-> 10],
     kuaidiyuan |->
        [base_salary |-> 200, salary_min |-> 150, salary_max |-> 280,
         level_required |-> 3, cooldown_hours |-> 2, exp_reward |-> 15],
     kefudaibiao |->
        [base_salary |-> 250, salary_min |-> 180, salary_max |-> 350,
         level_required |-> 5, cooldown_hours |-> 3, exp_reward |-> 20],
     chengxuyuan |->
        [base_salary |-> 500, salary_min |-> 300, salary_max |-> 800,
         level_required |-> 10, cooldown_hours |-> 4, exp_reward |-> 50],
     shejishi |->
        [base_salary |-> 450, salary_min |-> 280, salary_max |-> 700,
         level_required |-> 8, cooldown_hours |-> 4, exp_reward |-> 40],
     jinrongfenxishi |->
        [base_salary |-> 800, salary_min |-> 500, salary_max |-> 1200,
         level_required |-> 15, cooldown_hours |-> 6, exp_reward |-> 80],
     qiyeguwen |->
        [base_salary |-> 1000, salary_min |-> 600, salary_max |-> 1500,
         level_required |-> 20, cooldown_hours |-> 8, exp_reward |-> 100]]

\* the second band without the five levels below it
CalculateLevelNoBase(exp) ==
    IF exp < 500 THEN (IF exp \div 100 + 1 > 1 THEN exp \div 100 + 1 ELSE 1)
    ELSE IF exp < 1500 THEN (exp - 500) \div 200 + 1
    ELSE IF exp < 4000 THEN 10 + (exp - 1500) \div 500 + 1
    ELSE 15 + (exp - 4000) \div 1000 + 1

\* the third band counted in steps of the second
CalculateLevelWrongStep(exp) ==
    IF exp < 500 THEN (IF exp \div 100 + 1 > 1 THEN exp \div 100 + 1 ELSE 1)
    ELSE IF exp < 1500 THEN 5 + (exp - 500) \div 200 + 1
    ELSE IF exp < 4000 THEN 10 + (exp - 1500) \div 200 + 1
    ELSE 15 + (exp - 4000) \div 1000 + 1

calculate_level(exp) ==
    IF exp < 500 THEN (IF exp \div 100 + 1 > 1 THEN exp \div 100 + 1 ELSE 1)
    ELSE IF exp < 1500 THEN 5 + (exp - 500) \div 200 + 1
    ELSE IF exp < 4000 THEN 10 + (exp - 1500) \div 500 + 1
    ELSE 15 + (exp - 4000) \div 1000 + 1

\* the experience at which a level starts
get_level_exp_requirement(level) ==
    IF level <= 5 THEN (level - 1) * 100
    ELSE IF level <= 10 THEN 500 + (level - 6) * 200
    ELSE IF level <= 15 THEN 1500 + (level - 11) * 500
    ELSE 4000 + (level - 16) * 1000

\* the experience a level is said to take
get_exp_for_next_level(level) ==
    IF level <= 4 THEN 100
    ELSE IF level <= 9 THEN 200
    ELSE IF level <= 14 THEN 500
    ELSE 1000

\* int((level_progress / exp_for_current_level) * 100) in double precision:
\* the quotients 0.29, 0.57 and 0.58 times 100 fall just below the integer
progress_percentage(level_progress, exp_for_current_level) ==
    LET q == (level_progress * 100) \div exp_for_current_level
    IN IF /\ (level_progress * 100) % exp_for_current_level = 0
          /\ q \in {29, 57, 58}
       THEN q - 1 ELSE q

get_level_info(exp) ==
    LET current_level == calculate_level(exp)
        next_level == current_level + 1
        current_level_start == get_level_exp_requirement(current_level)
        next_level_start == get_level_exp_requirement(next_level)
        exp_for_current_level == get_exp_for_next_level(current_level)
        level_progress == exp - current_level_start
    IN [kind |-> "level_info",
        current_level |-> current_level,
        next_level |-> next_level,
        current_exp |-> exp,
        level_progress |-> level_progress,
        exp_needed |-> next_level_start - exp,
        exp_for_current_level |-> exp_for_current_level,
        progress_percentage |->
            progress_percentage(level_progress, exp_for_current_level)]

\* a total that leaves the luck bonus out
SalaryWithoutLuck(job_config, user_level, random_salary, luck_triggered, cfg) ==
    LET level_bonus == (job_config.base_salary * (user_level - 1) * 2) \div 100
        luck_bonus == IF luck_triggered THEN random_salary \div 2 ELSE 0
    IN [base_salary |-> random_salary,
        level_bonus |-> level_bonus,
        luck_bonus |-> luck_bonus,
        luck_triggered |-> luck_triggered,
        total_earned |-> random_salary + level_bonus,
        exp_reward |-> job_config.exp_reward * cfg.work_experience_multiplier]

\* random_salary and luck_triggered are the two random draws
calculate_salary(job_config, user_level, random_salary, luck_triggered, cfg) ==
    LET level_bonus == (job_config.base_salary * (user_level - 1) * 2) \div 100
        luck_bonus == IF luck_triggered THEN random_salary \div 2 ELSE 0
    IN [base_salary |-> random_salary,
        level_bonus |-> level_bonus,
        luck_bonus |-> luck_bonus,
        luck_triggered |-> luck_triggered,
        total_earned |-> random_salary + level_bonus + luck_bonus,
        exp_reward |-> job_config.exp_reward * cfg.work_experience_multiplier]

\* SELECT COUNT(*) FROM work_records WHERE user_id = ? AND date(work_time) = today
today_work_count(d, user_id, today) ==
    Cardinality({i \in 1..Len(d.work_records) :
                    /\ d.work_records[i].user_id = user_id
                    /\ sql_date(d.work_records[i].work_time) = today})

\* work_time of the latest record of this user and job, NULL if there is none
last_work(d, user_id, job_name) ==
    LET mine == {i \in 1..Len(d.work_records) :
                    /\ d.work_records[i].user_id = user_id
                    /\ d.work_records[i].work_type = job_name}
    IN IF mine = {} THEN NULL
       ELSE CHOOSE w \in {d.work_records[i].work_time : i \in mine} :
                \A i \in mine : d.work_records[i].work_time <= w

\* a work that pays without writing its record
WorkUnrecorded(d, user_id, job_name, salary_result, new_money, new_exp, new_level, t) ==
    [d EXCEPT
       !.users[user_id].money = new_money,
       !.users[user_id].exp = new_exp,
       !.users[user_id].level = new_level,
       !.users[user_id].last_work_time = t,
       !.users[user_id].updated_at = t,
       !.users[user_id].total_earned = @ + salary_result.total_earned]

\* a work whose UPDATE leaves the stored level as it was
WorkKeepsLevel(d, user_id, job_name, salary_result, new_money, new_exp, new_level, t) ==
    [d EXCEPT
       !.users[user_id].money = new_money,
       !.users[user_id].exp = new_exp,
       !.users[user_id].last_work_time = t,
       !.users[user_id].updated_at = t,
       !.users[user_id].total_earned = @ + salary_result.total_earned,
       !.work_records = Append(@,
           [user_id |-> user_id, work_type |-> job_name,
            base_salary |-> salary_result.base_salary,
            bonus |-> salary_result.level_bonus + salary_result.luck_bonus,
            total_earned |-> salary_result.total_earned,
            work_time |-> t])]

\* the UPDATE of users and the INSERT INTO work_records
work_apply(d, user_id, job_name, salary_result, new_money, new_exp, new_level, t) ==
    [d EXCEPT
       !.users[user_id].money = new_money,
       !.users[user_id].exp = new_exp,
       !.users[user_id].level = new_level,
       !.users[user_id].last_work_time = t,
       !.users[user_id].updated_at = t,
       !.users[user_id].total_earned = @ + salary_result.total_earned,
       !.work_records = Append(@,
           [user_id |-> user_id, work_type |-> job_name,
            base_salary |-> salary_result.base_salary,
            bonus |-> salary_result.level_bonus + salary_result.luck_bonus,
            total_earned |-> salary_result.total_earned,
            work_time |-> t])]

\* a gate that lets the level just below the required one pass
LevelGateOffByOne(level, job_config) == level + 1 < job_config.level_required

\* if level < job_config["level_required"]
level_too_low(level, job_config) == level < job_config.level_required

work(d, user_id, username, job_name, random_salary, luck_triggered, cfg, t, z) ==
    LET d1 == ensure_user_exists(d, user_id, username, t)
        job_config == jobs[job_name]
        row == d1.users[user_id]
        lw == last_work(d1, user_id, job_name)
        cooldown_end == lw + job_config.cooldown_hours
                             * cfg.work_cooldown_multiplier
        salary_result == calculate_salary(job_config, row.level, random_salary,
                                          luck_triggered, cfg)
        new_money == row.money + salary_result.total_earned
        new_exp == row.exp + salary_result.exp_reward
        new_level == calculate_level(new_exp)
    IN IF job_name \notin DOMAIN jobs THEN Out(d1, "UnknownJob")
       ELSE IF level_too_low(row.level, job_config) THEN Out(d1, "LevelTooLow")
       ELSE IF today_work_count(d1, user_id, date_today(t, z)) >= daily_work_limit
       THEN Out(d1, "DailyQuotaExceeded")
       ELSE IF lw # NULL /\ datetime_now(t, z) < cooldown_end
       THEN Out(d1, "OnCooldown")
       ELSE Out(work_apply(d1, user_id, job_name, salary_result, new_money,
                           new_exp, new_level, t),
                "ok")

\* the dict work returns to the command handler
work_report(d, user_id, username, job_name, random_salary, luck_triggered, cfg, t, z) ==
    LET out == work(d, user_id, username, job_name, random_salary,
                    luck_triggered, cfg, t, z)
        d1 == ensure_user_exists(d, user_id, username, t)
        row == d1.users[user_id]
        salary_result == calculate_salary(jobs[job_name], row.level,
                                          random_salary, luck_triggered, cfg)
        new_exp == row.exp + salary_result.exp_reward
        new_level == calculate_level(new_exp)
    IN IF out.result = "ok"
       THEN [kind |-> "work", user_id |-> user_id, job_name |-> job_name,
             result |-> "ok",
             total_earned |-> salary_result.total_earned,
             exp_reward |-> salary_result.exp_reward,
             new_money |-> row.money + salary_result.total_earned,
             new_exp |-> new_exp, new_level |-> new_level,
             level_up |-> new_level > row.level,
             today_work_count |->
                 today_work_count(d1, user_id, date_today(t, z)) + 1]
       ELSE [kind |-> "work", user_id |-> user_id, job_name |-> job_name,
             result |-> out.result, total_earned |-> 0, exp_reward |-> 0,
             new_money |-> 0, new_exp |-> 0, new_level |-> 0,
             level_up |-> FALSE, today_work_count |-> 0]

-----------------------------------------------------------------------------
(* Robbery engine.                                                         *)

Min(a, b) == IF a < b THEN a ELSE b

\* created_at of the robber's latest record, NULL if there is none
last_robbery(d, robber_id) ==
    LET mine == {i \in 1..Len(d.robbery_records) :
                    d.robbery_records[i].robber_id = robber_id}
    IN IF mine = {} THEN NULL
       ELSE CHOOSE w \in {d.robbery_records[i].created_at : i \in mine} :
                \A i \in mine : d.robbery_records[i].created_at <= w

\* a cap that leaves the protected amount out
CapIgnoresProtection(victim_money, cfg) ==
    Min(cfg.robbery_max_amount, victim_money)

max_rob_amount(victim_money, cfg) ==
    Min(cfg.robbery_max_amount, victim_money - cfg.robbery_protection_amount)

\* a penalty that is not capped by the robber's cash
PenaltyUncapped(robber_money, cfg) == cfg.robbery_failure_penalty

\* a penalty of the robber's whole cash
PenaltyTakesAll(robber_money, cfg) == robber_money

\* min(self.failure_penalty, robber_money)
penalty_amount(robber_money, cfg) == Min(cfg.robbery_failure_penalty, robber_money)

\* a robbery that also empties the victim's savings
RobTakesSavings(d, robber_id, victim_id, new_robber_money, new_victim_money, amount, success, t) ==
    [d EXCEPT
       !.users[robber_id].money = new_robber_money,
       !.users[robber_id].rob_count_today = @ + 1,
       !.users[victim_id].money = new_victim_money,
       !.users[victim_id].bank_money = 0,
       !.users[victim_id].robbed_count_today = @ + 1,
       !.users[robber_id].updated_at = t,
       !.users[victim_id].updated_at = t,
       !.robbery_records = Append(@,
           [robber_id |-> robber_id, victim_id |-> victim_id,
            amount |-> amount, success |-> success, created_at |-> t])]

\* a robbery whose second UPDATE leaves the victim's cash as it was
RobKeepsVictimCash(d, robber_id, victim_id, new_robber_money, new_victim_money, amount, success, t) ==
    [d EXCEPT
       !.users[robber_id].money = new_robber_money,
       !.users[robber_id].rob_count_today = @ + 1,
       !.users[victim_id].robbed_count_today = @ + 1,
       !.users[robber_id].updated_at = t,
       !.users[victim_id].updated_at = t,
       !.robbery_records = Append(@,
           [robber_id |-> robber_id, victim_id |-> victim_id,
            amount |-> amount, success |-> success, created_at |-> t])]

\* the two UPDATEs of users and the INSERT INTO robbery_records
rob_apply(d, robber_id, victim_id, new_robber_money, new_victim_money, amount, success, t) ==
    [d EXCEPT
       !.users[robber_id].money = new_robber_money,
       !.users[robber_id].rob_count_today = @ + 1,
       !.users[victim_id].money = new_victim_money,
       !.users[victim_id].robbed_count_today = @ + 1,
       !.users[robber_id].updated_at = t,
       !.users[victim_id].updated_at = t,
       !.robbery_records = Append(@,
           [robber_id |-> robber_id, victim_id |-> victim_id,
            amount |-> amount, success |-> success, created_at |-> t])]

\* a protection check that never protects
ProtectionIgnoresCash(victim_money, cfg) == victim_money < 0

\* victim_money < self.protection_amount
victim_protected(victim_money, cfg) ==
    victim_money < cfg.robbery_protection_amount

\* success and rob_draw are the two random draws (rob_draw is what
\* random.randint(min_amount, max_rob_amount) returns when it is called)
rob_user(d, robber_id, robber_name, victim_id, victim_name, success, rob_draw, cfg, t, z) ==
    LET d1 == rob_ensure_user_exists(
                  rob_ensure_user_exists(d, robber_id, robber_name, t),
                  victim_id, victim_name, t)
        robber == d1.users[robber_id]
        victim == d1.users[victim_id]
        lr == last_robbery(d1, robber_id)
        cap == max_rob_amount(victim.money, cfg)
        rob_amount == IF cap < cfg.robbery_min_amount THEN cap ELSE rob_draw
        penalty == penalty_amount(robber.money, cfg)
    IN IF robber_id = victim_id THEN Out(d1, "SelfTarget")
       ELSE IF robber.level < cfg.robbery_level_requirement
       THEN Out(d1, "LevelTooLow")
       ELSE IF lr # NULL /\ datetime_now(t, z) < lr + cfg.robbery_cooldown_hours
       THEN Out(d1, "OnCooldown")
       ELSE IF victim_protected(victim.money, cfg)
       THEN Out(d1, "VictimProtected")
       ELSE IF success
       THEN Out(rob_apply(d1, robber_id, victim_id,
                          robber.money + rob_amount, victim.money - rob_amount,
                          rob_amount, TRUE, t),
                "robbed")
       ELSE Out(rob_apply(d1, robber_id, victim_id,
                          robber.money - penalty, victim.money + penalty,
                          penalty, FALSE, t),
                "caught")

\* the dictionary rob_user returns: success, robbery_success and amount
\* (the amount taken, 0 when the robber was caught)
rob_report(d, robber_id, robber_name, victim_id, victim_name, success, rob_draw, cfg, t, z) ==
    LET out == rob_user(d, robber_id, robber_name, victim_id, victim_name,
                        success, rob_draw, cfg, t, z)
        recs == out.db.robbery_records
    IN [kind |-> "rob", robber_id |-> robber_id, victim_id |-> victim_id,
        result |-> out.result,
        robbery_success |-> out.result = "robbed",
        amount |-> IF out.result = "robbed" THEN recs[Len(recs)].amount ELSE 0]

-----------------------------------------------------------------------------
(* The calls, each the whole handler in one step: the callers are          *)
(* coroutines of one event loop and no handler awaits.                     *)

Idle == \A c \in DOMAIN conns : conns[c].pc = "idle"

Commit(d) ==
    /\ users' = d.users
    /\ bank_transactions' = d.bank_transactions
    /\ work_records' = d.work_records
    /\ checkin_records' = d.checkin_records
    /\ robbery_records' = d.robbery_records

Load(d) ==
    /\ users = d.users
    /\ bank_transactions = d.bank_transactions
    /\ work_records = d.work_records
    /\ checkin_records = d.checkin_records
    /\ robbery_records = d.robbery_records

Call(out) ==
    /\ Idle
    /\ TotalRecords(out.db) <= TotalRecords(snap.db) + MaxNewRecords
    /\ Commit(out.db)
    /\ UNCHANGED <<now, tz, config, conns, snap, shown>>

\* the draws of _calculate_salary, <<random_salary, luck_triggered>>:
\* random.randint over the salary range and, independently of it,
\* random.random() < 0.1
SalaryDraws(job_name) ==
    IF job_name \in DOMAIN jobs
    THEN (jobs[job_name].salary_min..jobs[job_name].salary_max) \X BOOLEAN
    ELSE {<<0, FALSE>>}

\* what random.randint(min_amount, max_rob_amount) may return for this
\* victim; it is not called when the cap is below the minimum
RobDraws(d, victim_id, cfg) ==
    LET victim_money == IF victim_id \in DOMAIN d.users
                        THEN d.users[victim_id].money ELSE 0
        cap == max_rob_amount(victim_money, cfg)
    IN IF cap >= cfg.robbery_min_amount
       THEN cfg.robbery_min_amount..cap ELSE {0}

\* the draws the single engines are followed with: the ends of each range
SalarySamples(job_name) ==
    IF job_name \in DOMAIN jobs
    THEN {<<jobs[job_name].salary_min, FALSE>>,
          <<jobs[job_name].salary_max, TRUE>>}
    ELSE {<<0, FALSE>>}

RobSamples(d, victim_id, cfg) ==
    LET victim_money == IF victim_id \in DOMAIN d.users
                        THEN d.users[victim_id].money ELSE 0
        cap == max_rob_amount(victim_money, cfg)
    IN IF cap >= cfg.robbery_min_amount
       THEN {cfg.robbery_min_amount, cap} ELSE {0}

Checkin(user_id, username, random_bonus) ==
    Call(daily_checkin(DB, user_id, username, random_bonus, date_today(now, tz), now))

Work(user_id, username, job_name, random_salary, luck_triggered) ==
    Call(work(DB, user_id, username, job_name, random_salary, luck_triggered,
              config, now, tz))

Deposit(user_id, username, amount) ==
    Call(deposit(DB, user_id, username, amount, now))

Withdraw(user_id, username, amount) ==
    Call(withdraw(DB, user_id, username, amount, now, tz))

Transfer(from_user_id, to_user_id, from_username, to_username, amount) ==
    Call(transfer(DB, from_user_id, to_user_id, from_username, to_username,
                  amount, now))

Rob(robber_id, robber_name, victim_id, victim_name, success, rob_draw) ==
    Call(rob_user(DB, robber_id, robber_name, victim_id, victim_name, success,
                  rob_draw, config, now, tz))

AccrueDailyInterest ==
    Call(apply_daily_interest(DB, config, now))

\* The reports that register their caller: each begins with
\* _ensure_user_exists and reads from there on.
GetCheckinInfo(user_id, username) ==
    Call(Out(ensure_user_exists(DB, user_id, username, now), "ok"))

GetAvailableJobs(user_id, username) ==
    Call(Out(ensure_user_exists(DB, user_id, username, now), "ok"))

GetBankInfo(user_id, username) ==
    Call(Out(ensure_user_exists(DB, user_id, username, now), "ok"))

GetUserBasicInfo(user_id, username) ==
    Call(Out(ensure_user_exists(DB, user_id, username, now), "ok"))

Tick(hours) ==
    /\ Idle
    /\ now + hours <= snap.now + MaxDays * HoursPerDay
    /\ now' = now + hours
    /\ UNCHANGED <<tables, tz, config, conns, snap, shown>>

\* The ledger after the first k calls of one morning: u1 works, checks in
\* and banks 100, u2 checks in.
Morning(k, cfg) ==
    LET s1 == work(EmptyDB, "u1", "A", "banzhuan", 60, FALSE, cfg, 0, 0).db
        s2 == daily_checkin(s1, "u1", "A", 0, 0, 0).db
        s3 == deposit(s2, "u1", "A", 100, 0).db
        s4 == daily_checkin(s3, "u2", "B", 50, 0, 0).db
    IN CASE k = 0 -> EmptyDB
         [] k = 1 -> s1
         [] k = 2 -> s2
         [] k = 3 -> s3
         [] OTHER -> s4

Init ==
    /\ \E k \in {0, 2, 4} : snap = [db |-> Morning(k, GameConfig), now |-> 0]
    /\ Load(snap.db)
    /\ now = snap.now
    /\ tz = 0
    /\ shown = NoResult
    /\ config = GameConfig
    /\ conns = <<>>

\* The chat commands of the plugin, each with every draw its call can make.
\* A command appends a record only while fewer than MaxChatRecords were
\* appended since Init. The draws are taken where the call takes them, after
\* its checks: a declined call draws nothing. "抢劫" finds its victim among
\* the registered users and passes the name stored for it; "银行 转账" replies
\* without a call, and no command accrues the interest.
MaxChatRecords == 1

ChatRoom == TotalRecords(DB) < TotalRecords(snap.db) + MaxChatRecords

Next ==
    \/ \E u \in Users :
          LET drawn == daily_checkin(DB, u, NameOf(u), random_bonus_min,
                                     date_today(now, tz), now).result = "ok"
          IN /\ drawn => ChatRoom
             /\ \E r \in (IF drawn THEN random_bonus_min..random_bonus_max
                          ELSE {random_bonus_min}) :
                   Checkin(u, NameOf(u), r)
    \/ \E u \in Users : GetCheckinInfo(u, NameOf(u))
    \/ \E u \in Users : GetUserBasicInfo(u, NameOf(u))
    \/ \E u \in Users : GetAvailableJobs(u, NameOf(u))
    \/ \E u \in Users, j \in JobInputs :
          LET drawn == work(DB, u, NameOf(u), j, 0, FALSE, config, now,
                            tz).result = "ok"
          IN /\ drawn => ChatRoom
             /\ \E s \in (IF drawn THEN SalaryDraws(j) ELSE {<<0, FALSE>>}) :
                   Work(u, NameOf(u), j, s[1], s[2])
    \/ \E u \in Users : GetBankInfo(u, NameOf(u))
    \/ \E u \in Users, a \in DepositAmounts :
          /\ deposit(DB, u, NameOf(u), a, now).result = "ok" => ChatRoom
          /\ Deposit(u, NameOf(u), a)
    \/ \E u \in Users, a \in WithdrawAmounts :
          /\ withdraw(DB, u, NameOf(u), a, now, tz).result = "ok" => ChatRoom
          /\ Withdraw(u, NameOf(u), a)
    \/ \E r \in Users, v \in DOMAIN users : \E rn \in NamesOf(r) :
          LET vn == users[v].username
              drawn == rob_user(DB, r, rn, v, vn, TRUE, 0, config, now,
                                tz).result = "robbed"
          IN /\ drawn => ChatRoom
             /\ \E ok \in (IF drawn THEN BOOLEAN ELSE {TRUE}) :
                   \E a \in (IF drawn /\ ok THEN RobDraws(DB, v, config)
                             ELSE {0}) :
                       Rob(r, rn, v, vn, ok, a)
    \/ \E h \in TickSteps : Tick(h)

Spec == Init /\ [][Next]_vars

\* The operations of the managers that write, called directly, transfer,
\* apply_daily_interest and the reports that register their caller among
\* them, by any user in any order, each followed with the sampled draws.
NextLedger ==
    \/ \E u \in Users, r \in RandomBonusDraws : Checkin(u, NameOf(u), r)
    \/ \E u \in Users, j \in JobInputs : \E s \in SalarySamples(j) :
          Work(u, NameOf(u), j, s[1], s[2])
    \/ \E u \in Users, a \in DepositAmounts : Deposit(u, NameOf(u), a)
    \/ \E u \in Users, a \in WithdrawAmounts : Withdraw(u, NameOf(u), a)
    \/ \E f \in Users, t \in Users, a \in TransferAmounts :
          Transfer(f, t, NameOf(f), NameOf(t), a)
    \/ \E r \in Users, v \in Users :
          \E rn \in NamesOf(r), ok \in BOOLEAN, a \in RobSamples(DB, v, config) :
              Rob(r, rn, v, NameOf(v), ok, a)
    \/ AccrueDailyInterest
    \/ \E u \in Users : GetCheckinInfo(u, NameOf(u))
    \/ \E u \in Users : GetUserBasicInfo(u, NameOf(u))
    \/ \E u \in Users : GetAvailableJobs(u, NameOf(u))
    \/ \E u \in Users : GetBankInfo(u, NameOf(u))
    \/ \E h \in TickSteps : Tick(h)

SpecLedger == Init /\ [][NextLedger]_vars

-----------------------------------------------------------------------------
(* The checkin engine alone, started after a streak of checkins by u1 on   *)
(* consecutive days, the last of them yesterday.                           *)

\* the checkins of user_id on the days first..last, one a day, in the order
\* of the days
RECURSIVE StreakDays(_, _, _, _)
StreakDays(d, user_id, first, last) ==
    IF first > last THEN d
    ELSE IF first = last
    THEN daily_checkin(d, user_id, NameOf(user_id), random_bonus_min, first,
                       first * HoursPerDay).db
    ELSE LET mid == (first + last) \div 2
             half == StreakDays(d, user_id, first, mid)
         IN IF Len(half.checkin_records) >= Len(d.checkin_records)
            THEN StreakDays(half, user_id, mid + 1, last)
            ELSE d

\* the ledger after checkins of user_id on the days 0..k-1
StreakHistory(user_id, k) == StreakDays(EmptyDB, user_id, 0, k - 1)

SeedStreaks == {0, 2, 6, 14, 29}

InitCheckin ==
    /\ \E k \in SeedStreaks :
          snap = [db |-> StreakHistory("u1", k), now |-> k * HoursPerDay]
    /\ Load(snap.db)
    /\ now = snap.now
    /\ tz = 0
    /\ shown = NoResult
    /\ config = DefaultConfig
    /\ conns = <<>>

NextCheckin ==
    \/ \E u \in Users, r \in RandomBonusDraws : Checkin(u, NameOf(u), r)
    \/ \E u \in Users : GetCheckinInfo(u, NameOf(u))
    \/ \E h \in TickSteps : Tick(h)

SpecCheckin == InitCheckin /\ [][NextCheckin]_vars

-----------------------------------------------------------------------------
(* The bank calls statement by statement. Every call opens connections of  *)
(* its own: _ensure_user_exists commits on one, the SELECTs of the handler *)
(* run outside a transaction on another, the first UPDATE opens the        *)
(* transaction that conn.commit() ends, and until then no other connection *)
(* sees its writes. The values written are the ones computed from the rows *)
(* the call read.                                                          *)

NumCalls == 3
ConcurrentAmounts == {40, 100}

ConnStart(op, user_id, other, amount) ==
    [pc |-> "called", op |-> op, user |-> user_id, other |-> other,
     amount |-> amount, today_withdraw |-> 0, money |-> 0, bank_money |-> 0,
     to_bank_money |-> 0, in_txn |-> FALSE, txn |-> EmptyDB, result |-> "",
     failed_at |-> ""]

At(c, pc, op) == conns[c].pc = pc /\ conns[c].op = op

Goto(c, pc) == conns' = [conns EXCEPT ![c].pc = pc]

Return(c, result) ==
    conns' = [conns EXCEPT ![c].pc = "done", ![c].result = result,
                           ![c].in_txn = FALSE, ![c].txn = EmptyDB]

\* withdraw, lines 148-161: the account is ensured, the amount is validated
WithdrawValidate(c) ==
    /\ At(c, "called", "withdraw")
    /\ Commit(ensure_user_exists(DB, conns[c].user, NameOf(conns[c].user), now))
    /\ IF conns[c].amount < min_withdraw THEN Return(c, "BelowMinimum")
       ELSE IF conns[c].amount > max_withdraw THEN Return(c, "AboveMaximum")
       ELSE Goto(c, "limit")
    /\ UNCHANGED <<now, tz, config, snap, shown>>

\* withdraw, lines 168-182: the sum of today's withdrawals is read
WithdrawReadLimit(c) ==
    /\ At(c, "limit", "withdraw")
    /\ LET sum == today_withdraw(DB, conns[c].user, date_today(now, tz))
       IN IF sum + conns[c].amount > daily_withdraw_limit
          THEN Return(c, "DailyLimitExceeded")
          ELSE conns' = [conns EXCEPT ![c].pc = "balance",
                                      ![c].today_withdraw = sum]
    /\ UNCHANGED <<tables, now, tz, config, snap, shown>>

\* withdraw, lines 185-200: the balances are read and the savings checked
WithdrawReadBalance(c) ==
    /\ At(c, "balance", "withdraw")
    /\ LET row == users[conns[c].user]
       IN IF row.bank_money < conns[c].amount
          THEN Return(c, "InsufficientSavings")
          ELSE conns' = [conns EXCEPT ![c].pc = "write",
                                      ![c].money = row.money,
                                      ![c].bank_money = row.bank_money]
    /\ UNCHANGED <<tables, now, tz, config, snap, shown>>

\* withdraw, lines 203-219: UPDATE, INSERT and commit of the values computed
\* from the balances that were read
WithdrawWrite(c) ==
    /\ At(c, "write", "withdraw")
    /\ Commit(bank_apply(DB, conns[c].user, "withdraw", conns[c].amount,
                         conns[c].money + conns[c].amount, conns[c].bank_money,
                         conns[c].bank_money - conns[c].amount, now))
    /\ Return(c, "ok")
    /\ UNCHANGED <<now, tz, config, snap, shown>>

\* NumCalls withdraw calls of one amount against the savings of u1
InitWithdraw ==
    /\ snap = [db |-> Morning(3, GameConfig), now |-> 0]
    /\ Load(snap.db)
    /\ now = snap.now
    /\ tz = 0
    /\ shown = NoResult
    /\ config = GameConfig
    /\ \E a \in ConcurrentAmounts :
          conns = [c \in 1..NumCalls |-> ConnStart("withdraw", "u1", "u1", a)]

NextWithdraw ==
    \/ \E c \in DOMAIN conns : WithdrawValidate(c)
    \/ \E c \in DOMAIN conns : WithdrawReadLimit(c)
    \/ \E c \in DOMAIN conns : WithdrawReadBalance(c)
    \/ \E c \in DOMAIN conns : WithdrawWrite(c)

SpecWithdraw == InitWithdraw /\ [][NextWithdraw]_vars

\* conn.commit() in the place of conn.rollback()
RollbackCommits(committed, pending) == pending

\* conn.rollback(): the committed ledger stays, the pending writes are dropped
rollback(committed, pending) == committed

\* a lock on each row a pending transaction has updated, in the place of the
\* one write lock of the database
RowLockFree(c, account) ==
    \A o \in DOMAIN conns \ {c} :
        ~(/\ conns[o].in_txn
          /\ \/ account = conns[o].user
             \/ /\ account = conns[o].other
                /\ conns[o].pc \in {"insert_out", "insert_in", "insert", "commit"})

\* sqlite3.connect on one database file: a statement of connection c that
\* writes a row of account waits while another connection's transaction is
\* pending, whichever rows that transaction wrote
write_lock_free(c, account) ==
    \A o \in DOMAIN conns \ {c} : ~conns[o].in_txn

\* transfer is called, one call after the other on this thread
TransferCall(c, from_user_id, to_user_id, amount) ==
    /\ conns[c].pc \in {"idle", "done"}
    /\ TotalRecords(DB) < TotalRecords(snap.db) + MaxNewRecords
    /\ conns' = [conns EXCEPT
                    ![c] = ConnStart("transfer", from_user_id, to_user_id, amount)]
    /\ UNCHANGED <<tables, now, tz, config, snap, shown>>

\* transfer, lines 352-365
TransferValidate(c) ==
    /\ At(c, "called", "transfer")
    /\ IF conns[c].user = conns[c].other THEN Return(c, "SelfTransfer")
       ELSE IF conns[c].amount < min_deposit THEN Return(c, "BelowMinimum")
       ELSE IF conns[c].amount > max_deposit THEN Return(c, "AboveMaximum")
       ELSE Goto(c, "ensure_from")
    /\ UNCHANGED <<tables, now, tz, config, snap, shown>>

\* transfer, line 367
TransferEnsureFrom(c) ==
    /\ At(c, "ensure_from", "transfer")
    /\ write_lock_free(c, conns[c].user)
    /\ Commit(ensure_user_exists(DB, conns[c].user, NameOf(conns[c].user), now))
    /\ Goto(c, "ensure_to")
    /\ UNCHANGED <<now, tz, config, snap, shown>>

\* transfer, line 368
TransferEnsureTo(c) ==
    /\ At(c, "ensure_to", "transfer")
    /\ write_lock_free(c, conns[c].other)
    /\ Commit(ensure_user_exists(DB, conns[c].other, NameOf(conns[c].other), now))
    /\ Goto(c, "select_from")
    /\ UNCHANGED <<now, tz, config, snap, shown>>

\* transfer, lines 375-384
TransferSelectFrom(c) ==
    /\ At(c, "select_from", "transfer")
    /\ IF \/ conns[c].user \notin DOMAIN users
          \/ users[conns[c].user].bank_money < conns[c].amount
       THEN Return(c, "InsufficientSavings")
       ELSE conns' = [conns EXCEPT
                         ![c].pc = "select_to",
                         ![c].bank_money = users[conns[c].user].bank_money]
    /\ UNCHANGED <<tables, now, tz, config, snap, shown>>

\* transfer, lines 387-393
TransferSelectTo(c) ==
    /\ At(c, "select_to", "transfer")
    /\ IF conns[c].other \notin DOMAIN users
       THEN Return(c, "RecipientNotFound")
       ELSE conns' = [conns EXCEPT
                         ![c].pc = "update_from",
                         ![c].to_bank_money = users[conns[c].other].bank_money]
    /\ UNCHANGED <<tables, now, tz, config, snap, shown>>

\* transfer, lines 400-404: the first UPDATE opens the transaction
TransferUpdateFrom(c) ==
    /\ At(c, "update_from", "transfer")
    /\ write_lock_free(c, conns[c].user)
    /\ conns' = [conns EXCEPT
                    ![c].pc = "update_to",
                    ![c].in_txn = TRUE,
                    ![c].txn = transfer_update_from(DB, conns[c].user,
                                   conns[c].bank_money - conns[c].amount, now)]
    /\ UNCHANGED <<tables, now, tz, config, snap, shown>>

\* transfer, lines 407-411
TransferUpdateTo(c) ==
    /\ At(c, "update_to", "transfer")
    /\ write_lock_free(c, conns[c].other)
    /\ conns' = [conns EXCEPT
                    ![c].pc = "insert_out",
                    ![c].txn = transfer_update_to(@, conns[c].other,
                                   conns[c].to_bank_money + conns[c].amount, now)]
    /\ UNCHANGED <<tables, now, tz, config, snap, shown>>

\* transfer, lines 414-418
TransferInsertOut(c) ==
    /\ At(c, "insert_out", "transfer")
    /\ conns' = [conns EXCEPT
                    ![c].pc = "insert_in",
                    ![c].txn = transfer_insert_out(@, conns[c].user,
                                   conns[c].amount, conns[c].bank_money, now)]
    /\ UNCHANGED <<tables, now, tz, config, snap, shown>>

\* transfer, lines 421-425
TransferInsertIn(c) ==
    /\ At(c, "insert_in", "transfer")
    /\ conns' = [conns EXCEPT
                    ![c].pc = "commit",
                    ![c].txn = transfer_insert_in(@, conns[c].other,
                                   conns[c].amount, conns[c].to_bank_money, now)]
    /\ UNCHANGED <<tables, now, tz, config, snap, shown>>

\* transfer, line 427
TransferCommit(c) ==
    /\ At(c, "commit", "transfer")
    /\ Commit(conns[c].txn)
    /\ Return(c, "ok")
    /\ UNCHANGED <<now, tz, config, snap, shown>>

\* a statement of the call raises: lines 367 and 368 stand outside the try
\* block and the call ends by raising; inside it the except clause rolls
\* the transaction back and the call reports the failure (lines 438-445)
Fault(c) ==
    /\ conns[c].op = "transfer"
    /\ conns[c].pc \notin {"idle", "called", "done"}
    /\ Commit(IF conns[c].in_txn THEN rollback(DB, conns[c].txn) ELSE DB)
    /\ conns' = [conns EXCEPT ![c].pc = "done",
                              ![c].result =
                                  IF conns[c].pc \in {"ensure_from", "ensure_to"}
                                  THEN "Raised" ELSE "SystemError",
                              ![c].in_txn = FALSE, ![c].txn = EmptyDB,
                              ![c].failed_at = conns[c].pc]
    /\ UNCHANGED <<now, tz, config, snap, shown>>

InitTransfer ==
    /\ \E k \in {0, 3, 4} : snap = [db |-> Morning(k, GameConfig), now |-> 0]
    /\ Load(snap.db)
    /\ now = snap.now
    /\ tz = 0
    /\ shown = NoResult
    /\ config = GameConfig
    /\ conns = [c \in {1} |-> [ConnStart("transfer", "u1", "u1", 0)
                                  EXCEPT !.pc = "idle"]]

NextTransfer ==
    \/ \E c \in DOMAIN conns, f \in Users, t \in Users, a \in TransferAmounts :
          TransferCall(c, f, t, a)
    \/ \E c \in DOMAIN conns : TransferValidate(c)
    \/ \E c \in DOMAIN conns : TransferEnsureFrom(c)
    \/ \E c \in DOMAIN conns : TransferEnsureTo(c)
    \/ \E c \in DOMAIN conns : TransferSelectFrom(c)
    \/ \E c \in DOMAIN conns : TransferSelectTo(c)
    \/ \E c \in DOMAIN conns : TransferUpdateFrom(c)
    \/ \E c \in DOMAIN conns : TransferUpdateTo(c)
    \/ \E c \in DOMAIN conns : TransferInsertOut(c)
    \/ \E c \in DOMAIN conns : TransferInsertIn(c)
    \/ \E c \in DOMAIN conns : TransferCommit(c)
    \/ \E c \in DOMAIN conns : Fault(c)

SpecTransfer == InitTransfer /\ [][NextTransfer]_vars

-----------------------------------------------------------------------------
(* The work engine alone, hour by hour, with what each call reports, under *)
(* several configurations and on a host whose local clock is UTC or is 8   *)
(* hours ahead of it.                                                      *)

MaxWait == 2
WorkJobs == {"banzhuan", "songwaimai", "bianlidianyuan", "nosuchjob"}
WorkConfigs ==
    {DefaultConfig, GameConfig, [GameConfig EXCEPT !.daily_work_limit = 2]}
HostOffsets == {0, 8}

\* the draws the work engine is followed with: the ends of the salary range
\* and an odd salary with luck, whose half is rounded down
WorkSamples(job_name) ==
    SalarySamples(job_name)
    \cup {<<jobs[j].salary_min + 1, TRUE>> : j \in {job_name} \cap DOMAIN jobs}

WorkCall(user_id, username, job_name, random_salary, luck_triggered) ==
    LET out == work(DB, user_id, username, job_name, random_salary,
                    luck_triggered, config, now, tz)
    IN /\ Idle
       /\ TotalRecords(out.db) <= TotalRecords(snap.db) + MaxNewRecords
       /\ Commit(out.db)
       /\ shown' = work_report(DB, user_id, username, job_name, random_salary,
                               luck_triggered, config, now, tz)
       /\ UNCHANGED <<now, tz, config, conns, snap>>

Wait(hours) ==
    /\ Idle
    /\ now + hours <= snap.now + MaxWait
    /\ now' = now + hours
    /\ UNCHANGED <<tables, tz, config, conns, snap, shown>>

InitWork ==
    /\ config \in WorkConfigs
    /\ tz \in HostOffsets
    /\ \E k \in {0, 1} : snap = [db |-> Morning(k, config), now |-> 0]
    /\ Load(snap.db)
    /\ now = snap.now
    /\ conns = <<>>
    /\ shown = NoResult

NextWork ==
    \/ \E j \in WorkJobs : \E s \in WorkSamples(j) :
          WorkCall("u1", NameOf("u1"), j, s[1], s[2])
    \/ GetAvailableJobs("u1", NameOf("u1"))
    \/ Wait(1)

SpecWork == InitWork /\ [][NextWork]_vars

-----------------------------------------------------------------------------
(* The level shown for an account as its experience grows.                 *)

MaxExp == 6200
ExpGains == {1, 1000}

LevelInfo(exp) ==
    /\ exp \in 0..MaxExp
    /\ shown' = get_level_info(exp)
    /\ UNCHANGED <<tables, now, tz, config, conns, snap>>

InitLevel ==
    /\ snap = [db |-> EmptyDB, now |-> 0]
    /\ Load(snap.db)
    /\ now = snap.now
    /\ tz = 0
    /\ config = DefaultConfig
    /\ conns = <<>>
    /\ shown = get_level_info(0)

NextLevel == \E g \in ExpGains : LevelInfo(shown.current_exp + g)

SpecLevel == InitLevel /\ [][NextLevel]_vars

-----------------------------------------------------------------------------
(* The bank engine alone on the day after a long streak of checkins has    *)
(* made u1 rich, in the evening by the UTC clock, on a host whose local    *)
(* clock is UTC or is 8 hours ahead of it.                                 *)

SeedStreakDays == 237
BankAmounts == {100, 50000, 100000}
BankConfigs ==
    {DefaultConfig,
     [DefaultConfig EXCEPT !.bank_interest_rate = 3, !.vip_threshold = 100000]}

\* The ledger d after u1 has checked in on each of the days first..last,
\* replayed half by half; the guard on the first half has it computed
\* before the second half is entered, which keeps the evaluation shallow.
RECURSIVE CheckinsFrom(_, _, _)
CheckinsFrom(d, first, last) ==
    IF first > last THEN d
    ELSE IF first = last
    THEN daily_checkin(d, "u1", "A", random_bonus_min, first, first * HoursPerDay).db
    ELSE LET mid == (first + last) \div 2
             half == CheckinsFrom(d, first, mid)
         IN IF Len(half.checkin_records) >= Len(d.checkin_records)
            THEN CheckinsFrom(half, mid + 1, last)
            ELSE d

\* The ledger after the first k bank calls of that day: u1 deposits
\* 100000, 100000 and 40000, then withdraws 50000 three times, each call
\* made on the ledger in which the calls before it are recorded.
Payday(k, t, z) ==
    LET s0 == CheckinsFrom(EmptyDB, 0, SeedStreakDays - 1)
        s1 == IF Len(s0.bank_transactions) = 0
              THEN deposit(s0, "u1", "A", 100000, t).db ELSE s0
        s2 == IF Len(s1.bank_transactions) = 1
              THEN deposit(s1, "u1", "A", 100000, t).db ELSE s1
        s3 == IF Len(s2.bank_transactions) = 2
              THEN deposit(s2, "u1", "A", 40000, t).db ELSE s2
        s4 == IF Len(s3.bank_transactions) = 3
              THEN withdraw(s3, "u1", "A", 50000, t, z).db ELSE s3
        s5 == IF Len(s4.bank_transactions) = 4
              THEN withdraw(s4, "u1", "A", 50000, t, z).db ELSE s4
        s6 == IF Len(s5.bank_transactions) = 5
              THEN withdraw(s5, "u1", "A", 50000, t, z).db ELSE s5
    IN CASE k = 0 -> s0
         [] k = 3 -> s3
         [] OTHER -> s6

InitBank ==
    /\ tz \in HostOffsets
    /\ \E k \in {0, 3, 6} :
          LET t == SeedStreakDays * HoursPerDay + 16
          IN snap = [db |-> Payday(k, t, tz), now |-> t]
    /\ Load(snap.db)
    /\ now = snap.now
    /\ shown = NoResult
    /\ config \in BankConfigs
    /\ conns = <<>>

NextBank ==
    \/ \E a \in BankAmounts : Deposit("u1", NameOf("u1"), a)
    \/ \E a \in BankAmounts : Withdraw("u1", NameOf("u1"), a)
    \/ \E a \in BankAmounts : Transfer("u1", "u2", NameOf("u1"), NameOf("u2"), a)
    \/ GetBankInfo("u1", NameOf("u1"))
    \/ AccrueDailyInterest
    \/ \E h \in TickSteps : Tick(h)

SpecBank == InitBank /\ [][NextBank]_vars

-----------------------------------------------------------------------------
(* apply_daily_interest statement by statement: the SELECT, the accrual of *)
(* each row in turn inside one transaction, the commit after the last row, *)
(* and a failure at any statement.                                         *)

\* The ledger of the evening: the morning's, then u2 banks 100 (k >= 1) and
\* u1 banks another 100 (k >= 2).
Evening(k, cfg) ==
    LET s4 == Morning(4, cfg)
        s5 == deposit(s4, "u2", "B", 100, 0).db
        s6 == work(s5, "u1", "A", "songwaimai", 100, FALSE, cfg, 0, 0).db
        s7 == deposit(s6, "u1", "A", 100, 0).db
    IN CASE k = 0 -> s4
         [] k = 1 -> s5
         [] OTHER -> s7

\* SELECT user_id, bank_money FROM users WHERE bank_money > 0, in rowid order
interest_rows(d) ==
    LET n == Cardinality(DOMAIN d.users)
        all == [k \in 1..n |-> [user_id |-> UserAt(d, k),
                                bank_money |-> d.users[UserAt(d, k)].bank_money]]
    IN SelectSeq(all, LAMBDA row : row.bank_money > 0)

InterestStart ==
    [rows |-> <<>>, next |-> 1] @@ ConnStart("interest", "", "", 0)

\* apply_daily_interest is called, one call after the other on this thread
InterestCall(c) ==
    /\ conns[c].pc \in {"idle", "done"}
    /\ TotalRecords(DB) < TotalRecords(snap.db) + MaxNewRecords
    /\ conns' = [conns EXCEPT ![c] = InterestStart]
    /\ UNCHANGED <<tables, now, tz, config, snap, shown>>

\* lines 459-463: the rows are fetched
InterestSelect(c) ==
    /\ At(c, "called", "interest")
    /\ conns' = [conns EXCEPT ![c].pc = "loop", ![c].rows = interest_rows(DB),
                              ![c].txn = DB]
    /\ UNCHANGED <<tables, now, tz, config, snap, shown>>

\* lines 467-493: one turn of the loop, its UPDATE and INSERT pending in the
\* transaction of the connection
InterestAccount(c) ==
    /\ At(c, "loop", "interest")
    /\ conns[c].next <= Len(conns[c].rows)
    /\ LET row == conns[c].rows[conns[c].next]
           interest == interest_of(row.bank_money, config)
       IN conns' = [conns EXCEPT
                       ![c].next = @ + 1,
                       ![c].in_txn = @ \/ interest > 0,
                       ![c].txn = IF interest > 0
                                  THEN interest_apply(@, row.user_id, interest,
                                                      row.bank_money, now)
                                  ELSE @]
    /\ UNCHANGED <<tables, now, tz, config, snap, shown>>

\* line 495: the one commit, after the last row
InterestCommit(c) ==
    /\ At(c, "loop", "interest")
    /\ conns[c].next > Len(conns[c].rows)
    /\ Commit(conns[c].txn)
    /\ Return(c, "ok")
    /\ UNCHANGED <<now, tz, config, snap, shown>>

\* a statement raises: the except clause rolls the transaction back and the
\* call reports the failure (lines 503-510)
InterestFault(c) ==
    /\ conns[c].op = "interest"
    /\ conns[c].pc \in {"called", "loop"}
    /\ Commit(IF conns[c].in_txn THEN rollback(DB, conns[c].txn) ELSE DB)
    /\ conns' = [conns EXCEPT ![c].pc = "done", ![c].result = "SystemError",
                              ![c].in_txn = FALSE, ![c].txn = EmptyDB,
                              ![c].failed_at = conns[c].pc]
    /\ UNCHANGED <<now, tz, config, snap, shown>>

\* the night passes between two calls
InterestTick(hours) ==
    /\ \A c \in DOMAIN conns : conns[c].pc \in {"idle", "done"}
    /\ now + hours <= snap.now + MaxDays * HoursPerDay
    /\ now' = now + hours
    /\ UNCHANGED <<tables, tz, config, conns, snap, shown>>

InitInterest ==
    /\ \E k \in {0, 1, 2} : snap = [db |-> Evening(k, GameConfig), now |-> 0]
    /\ Load(snap.db)
    /\ now = snap.now
    /\ tz = 0
    /\ shown = NoResult
    /\ config = GameConfig
    /\ conns = [c \in {1} |-> [InterestStart EXCEPT !.pc = "idle"]]

NextInterest ==
    \/ \E c \in DOMAIN conns : InterestCall(c)
    \/ \E c \in DOMAIN conns : InterestSelect(c)
    \/ \E c \in DOMAIN conns : InterestAccount(c)
    \/ \E c \in DOMAIN conns : InterestCommit(c)
    \/ \E c \in DOMAIN conns : InterestFault(c)
    \/ \E h \in TickSteps : InterestTick(h)

SpecInterest == InitInterest /\ [][NextInterest]_vars

-----------------------------------------------------------------------------
(* The robbery engine alone, hour by hour, with what each call reports,    *)
(* under two configurations and on a host whose local clock is UTC or is 8 *)
(* hours ahead of it.                                                      *)

RobConfigs ==
    {GameConfig, [DefaultConfig EXCEPT !.robbery_level_requirement = 1]}
RobWaitSteps == {5, 6}

\* The ledger of the morning, and (k >= 1) the same after u2 has banked 30
\* and u1 has checked in on each of the next four days.
Heist(k, cfg) ==
    IF k = 0 THEN Morning(4, cfg)
    ELSE CheckinsFrom(deposit(Morning(4, cfg), "u2", "B", 30, 0).db, 1, 4)

\* the draws of one call: the ends of the range and a value inside it
RobCallDraws(d, victim_id, cfg) ==
    RobSamples(d, victim_id, cfg)
    \cup {x \in {220} :
            /\ victim_id \in DOMAIN d.users
            /\ cfg.robbery_min_amount <= x
            /\ x <= max_rob_amount(d.users[victim_id].money, cfg)}

RobCall(robber_id, robber_name, victim_id, victim_name, success, rob_draw) ==
    LET out == rob_user(DB, robber_id, robber_name, victim_id, victim_name,
                        success, rob_draw, config, now, tz)
    IN /\ Idle
       /\ TotalRecords(out.db) <= TotalRecords(snap.db) + MaxNewRecords
       /\ Commit(out.db)
       /\ shown' = rob_report(DB, robber_id, robber_name, victim_id,
                              victim_name, success, rob_draw, config, now, tz)
       /\ UNCHANGED <<now, tz, config, conns, snap>>

RobWait(hours) ==
    /\ Idle
    /\ now + hours <= snap.now + 6 + MaxWait
    /\ now' = now + hours
    /\ UNCHANGED <<tables, tz, config, conns, snap, shown>>

InitRob ==
    /\ config \in RobConfigs
    /\ tz \in HostOffsets
    /\ \E k \in {0, 1} :
          snap = [db |-> Heist(k, config), now |-> 4 * HoursPerDay]
    /\ Load(snap.db)
    /\ now = snap.now
    /\ conns = <<>>
    /\ shown = NoResult

NextRob ==
    \/ \E r \in Users, v \in Users :
          \E ok \in BOOLEAN, a \in RobCallDraws(DB, v, config) :
              RobCall(r, NameOf(r), v, NameOf(v), ok, a)
    \/ \E h \in RobWaitSteps : RobWait(h)

SpecRob == InitRob /\ [][NextRob]_vars

-----------------------------------------------------------------------------
(* rob_user statement by statement on two connections, with a reader on a  *)
(* third and a bank call between the statements: each call opens its own   *)
(* connection, its first UPDATE opens a transaction that holds the write   *)
(* lock of the database until the commit or the rollback.                  *)

\* what a SELECT on another connection returns while a transaction is
\* pending: the committed database
snapshot_read(committed, pending) == committed

\* the three statements of a robbery, in the order of the code
rob_update_robber(d, robber_id, new_robber_money, t) ==
    [d EXCEPT !.users[robber_id].money = new_robber_money,
              !.users[robber_id].rob_count_today = @ + 1,
              !.users[robber_id].updated_at = t]

rob_update_victim(d, victim_id, new_victim_money, t) ==
    [d EXCEPT !.users[victim_id].money = new_victim_money,
              !.users[victim_id].robbed_count_today = @ + 1,
              !.users[victim_id].updated_at = t]

rob_insert(d, robber_id, victim_id, amount, success, t) ==
    [d EXCEPT !.robbery_records = Append(@,
        [robber_id |-> robber_id, victim_id |-> victim_id,
         amount |-> amount, success |-> success, created_at |-> t])]

RobStart(robber_id, victim_id, success, rob_draw) ==
    [success |-> success, rob_draw |-> rob_draw, level |-> 0,
     new_robber_money |-> 0, new_victim_money |-> 0]
    @@ ConnStart("rob", robber_id, victim_id, 0)

\* the database as connection c reads it: the pending writes are its own
\* only
ViewOf(c) ==
    IF \E o \in DOMAIN conns : o /= c /\ conns[o].in_txn
    THEN snapshot_read(DB, conns[CHOOSE o \in DOMAIN conns :
                                     o /= c /\ conns[o].in_txn].txn)
    ELSE DB

\* the calls that will append a record and have not returned yet
Writing ==
    Cardinality({o \in DOMAIN conns :
                    /\ conns[o].op \in {"rob", "deposit"}
                    /\ conns[o].pc \notin {"idle", "done"}})

\* rob_user returns or raises: its connection is closed, its draws and its
\* locals are gone
RobReturn(c, result) ==
    conns' = [conns EXCEPT
                 ![c] = [RobStart(conns[c].user, conns[c].other, FALSE, 0)
                            EXCEPT !.pc = "done", !.result = result]]

\* rob_user is called, one call after the other on each thread
RobStepCall(c, robber_id, victim_id, success, rob_draw) ==
    /\ conns[c].op = "rob"
    /\ conns[c].pc \in {"idle", "done"}
    /\ TotalRecords(DB) + Writing < TotalRecords(snap.db) + MaxNewRecords
    /\ conns' = [conns EXCEPT
                    ![c] = RobStart(robber_id, victim_id, success, rob_draw)]
    /\ UNCHANGED <<tables, now, tz, config, snap, shown>>

\* lines 68-69: the robber's account is ensured, in a transaction of its own
\* that needs the write lock and is committed before the call goes on
RobEnsureRobber(c) ==
    /\ At(c, "called", "rob")
    /\ write_lock_free(c, conns[c].user)
    /\ Commit(rob_ensure_user_exists(DB, conns[c].user, NameOf(conns[c].user), now))
    /\ Goto(c, "ensure_victim")
    /\ UNCHANGED <<now, tz, config, snap, shown>>

\* lines 70-77: the victim's account likewise, then the self check
RobEnsureVictim(c) ==
    /\ At(c, "ensure_victim", "rob")
    /\ write_lock_free(c, conns[c].other)
    /\ Commit(rob_ensure_user_exists(DB, conns[c].other,
                                     NameOf(conns[c].other), now))
    /\ IF conns[c].user = conns[c].other THEN RobReturn(c, "SelfTarget")
       ELSE Goto(c, "read_robber")
    /\ UNCHANGED <<now, tz, config, snap, shown>>

\* lines 84-99
RobReadRobber(c) ==
    /\ At(c, "read_robber", "rob")
    /\ LET row == ViewOf(c).users[conns[c].user]
       IN IF row.level < config.robbery_level_requirement
          THEN RobReturn(c, "LevelTooLow")
          ELSE conns' = [conns EXCEPT ![c].pc = "read_cooldown",
                                      ![c].level = row.level,
                                      ![c].money = row.money]
    /\ UNCHANGED <<tables, now, tz, config, snap, shown>>

\* lines 102-121
RobReadCooldown(c) ==
    /\ At(c, "read_cooldown", "rob")
    /\ LET lr == last_robbery(ViewOf(c), conns[c].user)
       IN IF lr # NULL /\ datetime_now(now, tz) < lr + config.robbery_cooldown_hours
          THEN RobReturn(c, "OnCooldown")
          ELSE Goto(c, "read_victim")
    /\ UNCHANGED <<tables, now, tz, config, snap, shown>>

\* lines 123-153 and 176-180: the victim is read and the amounts of the two
\* UPDATEs are computed
RobReadVictim(c) ==
    /\ At(c, "read_victim", "rob")
    /\ LET victim_money == ViewOf(c).users[conns[c].other].money
           cap == max_rob_amount(victim_money, config)
           rob_amount == IF cap < config.robbery_min_amount THEN cap
                         ELSE Min(conns[c].rob_draw, cap)
           penalty == penalty_amount(conns[c].money, config)
       IN IF victim_protected(victim_money, config)
          THEN RobReturn(c, "VictimProtected")
          ELSE conns' = [conns EXCEPT
                  ![c].pc = "update_robber",
                  ![c].amount = IF conns[c].success THEN rob_amount ELSE penalty,
                  ![c].new_robber_money =
                      IF conns[c].success THEN conns[c].money + rob_amount
                      ELSE conns[c].money - penalty,
                  ![c].new_victim_money =
                      IF conns[c].success THEN victim_money - rob_amount
                      ELSE victim_money + penalty]
    /\ UNCHANGED <<tables, now, tz, config, snap, shown>>

\* lines 155-159 / 183-187: the first UPDATE opens the transaction
RobUpdateRobber(c) ==
    /\ At(c, "update_robber", "rob")
    /\ write_lock_free(c, conns[c].user)
    /\ conns' = [conns EXCEPT
                    ![c].pc = "update_victim",
                    ![c].in_txn = TRUE,
                    ![c].txn = rob_update_robber(DB, conns[c].user,
                                                 conns[c].new_robber_money, now)]
    /\ UNCHANGED <<tables, now, tz, config, snap, shown>>

\* lines 161-165 / 190-194
RobUpdateVictim(c) ==
    /\ At(c, "update_victim", "rob")
    /\ write_lock_free(c, conns[c].other)
    /\ conns' = [conns EXCEPT
                    ![c].pc = "insert",
                    ![c].txn = rob_update_victim(@, conns[c].other,
                                                 conns[c].new_victim_money, now)]
    /\ UNCHANGED <<tables, now, tz, config, snap, shown>>

\* lines 168-172 / 197-201
RobInsert(c) ==
    /\ At(c, "insert", "rob")
    /\ conns' = [conns EXCEPT
                    ![c].pc = "commit",
                    ![c].txn = rob_insert(@, conns[c].user, conns[c].other,
                                          conns[c].amount, conns[c].success, now)]
    /\ UNCHANGED <<tables, now, tz, config, snap, shown>>

\* line 206
RobCommit(c) ==
    /\ At(c, "commit", "rob")
    /\ Commit(conns[c].txn)
    /\ RobReturn(c, IF conns[c].success THEN "robbed" ELSE "caught")
    /\ UNCHANGED <<now, tz, config, snap, shown>>

\* a statement of the call raises: inside the try block the except clause
\* rolls the transaction back and the call returns the error (lines
\* 216-220); in _ensure_user_exists, outside of it, nothing is pending and
\* the exception leaves rob_user
RobFault(c) ==
    /\ conns[c].op = "rob"
    /\ conns[c].pc \notin {"idle", "done"}
    /\ Commit(IF conns[c].in_txn THEN rollback(DB, conns[c].txn) ELSE DB)
    /\ RobReturn(c, IF conns[c].pc \in {"called", "ensure_victim"}
                    THEN "Raised" ELSE "SystemError")
    /\ UNCHANGED <<now, tz, config, snap, shown>>

\* get_robbery_stats on a connection of its own: six SELECTs, each outside
\* a transaction, so that a commit of another call can fall between any
\* two of them. Of what they return the call keeps here the cash and the
\* two counters of the row, the numbers of rows of the four log queries
\* and can_rob.
RobberiesOf(d, user_id, role) ==
    Cardinality({i \in 1..Len(d.robbery_records) :
                    user_id = IF role = "robber"
                              THEN d.robbery_records[i].robber_id
                              ELSE d.robbery_records[i].victim_id})

StatsStart(user_id) ==
    [op |-> "stats", pc |-> "read_user", rob_count_today |-> 0,
     robbed_count_today |-> 0, total_robberies |-> 0, total_robbed_times |-> 0,
     recent_robberies |-> 0, recent_robbed |-> 0, can_rob |-> FALSE]
    @@ RobStart(user_id, user_id, FALSE, 0)

StatsCall(c, user_id) ==
    /\ conns[c].op = "stats"
    /\ conns[c].pc \in {"idle", "done"}
    /\ conns' = [conns EXCEPT ![c] = StatsStart(user_id)]
    /\ UNCHANGED <<tables, now, tz, config, snap, shown>>

\* lines 237-246
StatsReadUser(c) ==
    /\ At(c, "read_user", "stats")
    /\ LET view == ViewOf(c)
       IN IF conns[c].user \notin DOMAIN view.users
          THEN Return(c, "UserNotFound")
          ELSE LET row == view.users[conns[c].user]
               IN conns' = [conns EXCEPT
                      ![c].pc = "rob_stats",
                      ![c].level = row.level,
                      ![c].money = row.money,
                      ![c].rob_count_today = row.rob_count_today,
                      ![c].robbed_count_today = row.robbed_count_today]
    /\ UNCHANGED <<tables, now, tz, config, snap, shown>>

\* lines 249-260
StatsRobStats(c) ==
    /\ At(c, "rob_stats", "stats")
    /\ conns' = [conns EXCEPT
                    ![c].pc = "robbed_stats",
                    ![c].total_robberies =
                        RobberiesOf(ViewOf(c), conns[c].user, "robber")]
    /\ UNCHANGED <<tables, now, tz, config, snap, shown>>

\* lines 263-274
StatsRobbedStats(c) ==
    /\ At(c, "robbed_stats", "stats")
    /\ conns' = [conns EXCEPT
                    ![c].pc = "recent_robberies",
                    ![c].total_robbed_times =
                        RobberiesOf(ViewOf(c), conns[c].user, "victim")]
    /\ UNCHANGED <<tables, now, tz, config, snap, shown>>

\* lines 280-289: LIMIT 5
StatsRecentRobberies(c) ==
    /\ At(c, "recent_robberies", "stats")
    /\ conns' = [conns EXCEPT
                    ![c].pc = "recent_robbed",
                    ![c].recent_robberies =
                        Min(5, RobberiesOf(ViewOf(c), conns[c].user, "robber"))]
    /\ UNCHANGED <<tables, now, tz, config, snap, shown>>

\* lines 292-301: LIMIT 3
StatsRecentRobbed(c) ==
    /\ At(c, "recent_robbed", "stats")
    /\ conns' = [conns EXCEPT
                    ![c].pc = "cooldown",
                    ![c].recent_robbed =
                        Min(3, RobberiesOf(ViewOf(c), conns[c].user, "victim"))]
    /\ UNCHANGED <<tables, now, tz, config, snap, shown>>

\* lines 304-329 and the return
StatsCooldown(c) ==
    /\ At(c, "cooldown", "stats")
    /\ LET lr == last_robbery(ViewOf(c), conns[c].user)
           cooled == \/ lr = NULL
                     \/ datetime_now(now, tz) >= lr + config.robbery_cooldown_hours
       IN conns' = [conns EXCEPT
               ![c].pc = "done",
               ![c].result = "ok",
               ![c].can_rob =
                   cooled /\ conns[c].level >= config.robbery_level_requirement]
    /\ UNCHANGED <<tables, now, tz, config, snap, shown>>

\* deposit on connections of its own, between the statements of the
\* robberies
DepositCall(c, user_id, amount) ==
    /\ conns[c].op = "deposit"
    /\ conns[c].pc \in {"idle", "done"}
    /\ TotalRecords(DB) + Writing < TotalRecords(snap.db) + MaxNewRecords
    /\ conns' = [conns EXCEPT
                    ![c] = ConnStart("deposit", user_id, user_id, amount)]
    /\ UNCHANGED <<tables, now, tz, config, snap, shown>>

DepositReturn(c, result) ==
    conns' = [conns EXCEPT
                 ![c] = [ConnStart("deposit", conns[c].user, conns[c].user, 0)
                            EXCEPT !.pc = "done", !.result = result]]

\* deposit, lines 62-75: the account is ensured and committed, the amount is
\* validated
DepositEnsure(c) ==
    /\ At(c, "called", "deposit")
    /\ write_lock_free(c, conns[c].user)
    /\ Commit(ensure_user_exists(DB, conns[c].user, NameOf(conns[c].user), now))
    /\ IF conns[c].amount < min_deposit THEN DepositReturn(c, "BelowMinimum")
       ELSE IF conns[c].amount > max_deposit THEN DepositReturn(c, "AboveMaximum")
       ELSE Goto(c, "balance")
    /\ UNCHANGED <<now, tz, config, snap, shown>>

\* deposit, lines 82-97: the balances are read and the cash is checked
DepositReadBalance(c) ==
    /\ At(c, "balance", "deposit")
    /\ LET view == ViewOf(c)
       IN IF conns[c].user \notin DOMAIN view.users
          THEN DepositReturn(c, "UserDataError")
          ELSE IF view.users[conns[c].user].money < conns[c].amount
          THEN DepositReturn(c, "InsufficientCash")
          ELSE conns' = [conns EXCEPT
                  ![c].pc = "write",
                  ![c].money = view.users[conns[c].user].money,
                  ![c].bank_money = view.users[conns[c].user].bank_money]
    /\ UNCHANGED <<tables, now, tz, config, snap, shown>>

\* deposit, lines 100-116: the UPDATE, which waits for the write lock, the
\* INSERT and the commit, of the values computed from the balances that
\* were read
DepositWrite(c) ==
    /\ At(c, "write", "deposit")
    /\ write_lock_free(c, conns[c].user)
    /\ Commit(bank_apply(DB, conns[c].user, "deposit", conns[c].amount,
                         conns[c].money - conns[c].amount, conns[c].bank_money,
                         conns[c].bank_money + conns[c].amount, now))
    /\ DepositReturn(c, "ok")
    /\ UNCHANGED <<now, tz, config, snap, shown>>

\* a statement of deposit raises: nothing of the call was committed but the
\* account it ensured; in the try block the call returns the error (lines
\* 127-134), in _ensure_user_exists the exception leaves deposit
DepositFault(c) ==
    /\ conns[c].op = "deposit"
    /\ conns[c].pc \notin {"idle", "done"}
    /\ DepositReturn(c, IF conns[c].pc = "called" THEN "Raised"
                        ELSE "SystemError")
    /\ UNCHANGED <<tables, now, tz, config, snap, shown>>

\* the two threads: u1 robs u2 on the first, u2 robs u1 on the second
RobberOn(c) == IF c = 1 THEN "u1" ELSE "u2"

\* the robberies run on the threads 1 and 2, a reader of the statistics on
\* thread 3 and a depositor on thread 4
RobThreads == {1, 2}

InitRobSteps ==
    /\ config = [DefaultConfig EXCEPT !.robbery_level_requirement = 1]
    /\ tz = 0
    /\ \E k \in {0, 1} :
          snap = [db |-> Heist(k, config), now |-> 4 * HoursPerDay]
    /\ Load(snap.db)
    /\ now = snap.now
    /\ conns = [c \in 1..4 |->
                   CASE c \in RobThreads ->
                          [RobStart("u1", "u2", FALSE, 0) EXCEPT !.pc = "idle"]
                     [] c = 3 -> [StatsStart("u1") EXCEPT !.pc = "idle"]
                     [] OTHER -> [ConnStart("deposit", "u1", "u1", 0)
                                     EXCEPT !.pc = "idle"]]
    /\ shown = NoResult

NextRobSteps ==
    \/ \E c \in RobThreads, ok \in BOOLEAN :
          RobStepCall(c, RobberOn(c), RobberOn(3 - c), ok,
                      config.robbery_min_amount)
    \/ \E c \in DOMAIN conns : RobEnsureRobber(c)
    \/ \E c \in DOMAIN conns : RobEnsureVictim(c)
    \/ \E c \in DOMAIN conns : RobReadRobber(c)
    \/ \E c \in DOMAIN conns : RobReadCooldown(c)
    \/ \E c \in DOMAIN conns : RobReadVictim(c)
    \/ \E c \in DOMAIN conns : RobUpdateRobber(c)
    \/ \E c \in DOMAIN conns : RobUpdateVictim(c)
    \/ \E c \in DOMAIN conns : RobInsert(c)
    \/ \E c \in DOMAIN conns : RobCommit(c)
    \/ \E c \in DOMAIN conns : RobFault(c)
    \/ \E c \in DOMAIN conns, u \in Users : StatsCall(c, u)
    \/ \E c \in DOMAIN conns : StatsReadUser(c)
    \/ \E c \in DOMAIN conns : StatsRobStats(c)
    \/ \E c \in DOMAIN conns : StatsRobbedStats(c)
    \/ \E c \in DOMAIN conns : StatsRecentRobberies(c)
    \/ \E c \in DOMAIN conns : StatsRecentRobbed(c)
    \/ \E c \in DOMAIN conns : StatsCooldown(c)
    \/ \E c \in DOMAIN conns, u \in Users : DepositCall(c, u, 100)
    \/ \E c \in DOMAIN conns : DepositEnsure(c)
    \/ \E c \in DOMAIN conns : DepositReadBalance(c)
    \/ \E c \in DOMAIN conns : DepositWrite(c)
    \/ \E c \in DOMAIN conns : DepositFault(c)

SpecRobSteps == InitRobSteps /\ [][NextRobSteps]_vars

\* The four calls made once each and at once: u1 robs u2, u2 robs u1, the
\* statistics of one user are read and one user deposits 100; their
\* statements interleave in every order.
InitRobOnce ==
    /\ config = [DefaultConfig EXCEPT !.robbery_level_requirement = 1]
    /\ tz = 0
    /\ \E k \in {0, 1} :
          snap = [db |-> Heist(k, config), now |-> 4 * HoursPerDay]
    /\ Load(snap.db)
    /\ now = snap.now
    /\ \E ok \in [RobThreads -> BOOLEAN], reader \in Users, saver \in Users :
          conns = [c \in 1..4 |->
                     CASE c \in RobThreads ->
                            RobStart(RobberOn(c), RobberOn(3 - c), ok[c],
                                     config.robbery_min_amount)
                       [] c = 3 -> StatsStart(reader)
                       [] OTHER -> ConnStart("deposit", saver, saver, 100)]
    /\ shown = NoResult

NextRobOnce ==
    \/ \E c \in DOMAIN conns : RobEnsureRobber(c)
    \/ \E c \in DOMAIN conns : RobEnsureVictim(c)
    \/ \E c \in DOMAIN conns : RobReadRobber(c)
    \/ \E c \in DOMAIN conns : RobReadCooldown(c)
    \/ \E c \in DOMAIN conns : RobReadVictim(c)
    \/ \E c \in DOMAIN conns : RobUpdateRobber(c)
    \/ \E c \in DOMAIN conns : RobUpdateVictim(c)
    \/ \E c \in DOMAIN conns : RobInsert(c)
    \/ \E c \in DOMAIN conns : RobCommit(c)
    \/ \E c \in DOMAIN conns : RobFault(c)
    \/ \E c \in DOMAIN conns : StatsReadUser(c)
    \/ \E c \in DOMAIN conns : StatsRobStats(c)
    \/ \E c \in DOMAIN conns : StatsRobbedStats(c)
    \/ \E c \in DOMAIN conns : StatsRecentRobberies(c)
    \/ \E c \in DOMAIN conns : StatsRecentRobbed(c)
    \/ \E c \in DOMAIN conns : StatsCooldown(c)
    \/ \E c \in DOMAIN conns : DepositEnsure(c)
    \/ \E c \in DOMAIN conns : DepositReadBalance(c)
    \/ \E c \in DOMAIN conns : DepositWrite(c)
    \/ \E c \in DOMAIN conns : DepositFault(c)

SpecRobOnce == InitRobOnce /\ [][NextRobOnce]_vars

-----------------------------------------------------------------------------
(* Concurrent withdraw calls late on a day on which u1 has already         *)
(* withdrawn 150000 of the daily 200000, on a host whose clock is UTC.     *)

LimitAmounts == {25000, 50000}

InitDailyLimit ==
    /\ LET t == SeedStreakDays * HoursPerDay + 16
       IN snap = [db |-> Payday(6, t, 0), now |-> t]
    /\ Load(snap.db)
    /\ now = snap.now
    /\ tz = 0
    /\ shown = NoResult
    /\ config = DefaultConfig
    /\ \E a \in LimitAmounts :
          conns = [c \in 1..NumCalls |-> ConnStart("withdraw", "u1", "u1", a)]

SpecDailyLimit == InitDailyLimit /\ [][NextWithdraw]_vars

-----------------------------------------------------------------------------
(* Two calls on the same pair of accounts in opposite directions, each on  *)
(* a connection of its own and statement by statement: transfer u1 to u2   *)
(* with transfer u2 to u1, or u1 robbing u2 with u2 robbing u1. The        *)
(* scheduler lets every call that can execute its next statement execute   *)
(* it sooner or later; a statement may fail, but none has to.              *)

OppositeAmounts == {30, 100}

InitOpposite ==
    /\ config = [DefaultConfig EXCEPT !.robbery_level_requirement = 1]
    /\ tz = 0
    /\ snap = [db |-> Heist(1, config), now |-> 4 * HoursPerDay]
    /\ Load(snap.db)
    /\ now = snap.now
    /\ shown = NoResult
    /\ \/ \E a \in OppositeAmounts, b \in OppositeAmounts :
             conns = [c \in {1, 2} |->
                         ConnStart("transfer", RobberOn(c), RobberOn(3 - c),
                                   IF c = 1 THEN a ELSE b)]
       \/ \E ok \in BOOLEAN, ko \in BOOLEAN :
             conns = [c \in {1, 2} |->
                         RobStart(RobberOn(c), RobberOn(3 - c),
                                  IF c = 1 THEN ok ELSE ko,
                                  config.robbery_min_amount)]

NextOpposite ==
    \/ \E c \in DOMAIN conns : TransferValidate(c)
    \/ \E c \in DOMAIN conns : TransferEnsureFrom(c)
    \/ \E c \in DOMAIN conns : TransferEnsureTo(c)
    \/ \E c \in DOMAIN conns : TransferSelectFrom(c)
    \/ \E c \in DOMAIN conns : TransferSelectTo(c)
    \/ \E c \in DOMAIN conns : TransferUpdateFrom(c)
    \/ \E c \in DOMAIN conns : TransferUpdateTo(c)
    \/ \E c \in DOMAIN conns : TransferInsertOut(c)
    \/ \E c \in DOMAIN conns : TransferInsertIn(c)
    \/ \E c \in DOMAIN conns : TransferCommit(c)
    \/ \E c \in DOMAIN conns : Fault(c)
    \/ \E c \in DOMAIN conns : RobEnsureRobber(c)
    \/ \E c \in DOMAIN conns : RobEnsureVictim(c)
    \/ \E c \in DOMAIN conns : RobReadRobber(c)
    \/ \E c \in DOMAIN conns : RobReadCooldown(c)
    \/ \E c \in DOMAIN conns : RobReadVictim(c)
    \/ \E c \in DOMAIN conns : RobUpdateRobber(c)
    \/ \E c \in DOMAIN conns : RobUpdateVictim(c)
    \/ \E c \in DOMAIN conns : RobInsert(c)
    \/ \E c \in DOMAIN conns : RobCommit(c)
    \/ \E c \in DOMAIN conns : RobFault(c)

\* the next statement of the call on connection c, when it does not fail
StatementOf(c) ==
    \/ TransferValidate(c) \/ TransferEnsureFrom(c) \/ TransferEnsureTo(c)
    \/ TransferSelectFrom(c) \/ TransferSelectTo(c) \/ TransferUpdateFrom(c)
    \/ TransferUpdateTo(c) \/ TransferInsertOut(c) \/ TransferInsertIn(c)
    \/ TransferCommit(c)
    \/ RobEnsureRobber(c) \/ RobEnsureVictim(c)
    \/ RobReadRobber(c) \/ RobReadCooldown(c)
    \/ RobReadVictim(c) \/ RobUpdateRobber(c) \/ RobUpdateVictim(c)
    \/ RobInsert(c) \/ RobCommit(c)

SpecOpposite ==
    /\ InitOpposite
    /\ [][NextOpposite]_vars
    /\ \A c \in {1, 2} : WF_vars(StatementOf(c))

-----------------------------------------------------------------------------
(* The rankings: the ranking engine's rank of a user and its top list, and *)
(* the ranks the user-info page computes on its own.                       *)

RankingTypes == {"money", "assets", "earned", "level", "checkin"}

\* ranking_types: the column or expression a ranking orders by
ranking_field(row, ranking_type) ==
    CASE ranking_type = "money" -> row.money
      [] ranking_type = "assets" -> row.money + row.bank_money
      [] ranking_type = "earned" -> row.total_earned
      [] ranking_type = "level" -> row.exp
      [] OTHER -> row.total_checkin

\* an account counts as ahead of a user who is no better than it
AheadOrLevel(other, row, ranking_type) ==
    ranking_field(other, ranking_type) >= ranking_field(row, ranking_type)

\* the WHERE clause of the rank count: the other row is strictly greater
\* on the field, for the level ranking on the level and then on the field
ahead_of(other, row, ranking_type) ==
    IF ranking_type = "level"
    THEN \/ other.level > row.level
         \/ /\ other.level = row.level
            /\ ranking_field(other, ranking_type) > ranking_field(row, ranking_type)
    ELSE ranking_field(other, ranking_type) > ranking_field(row, ranking_type)

get_user_ranking_info(d, user_id, ranking_type) ==
    IF ranking_type \notin RankingTypes
    THEN [kind |-> "rank", result |-> "UnsupportedType", user_id |-> user_id,
          ranking_type |-> ranking_type, rank |-> 0, value |-> 0]
    ELSE IF user_id \notin DOMAIN d.users
    THEN [kind |-> "rank", result |-> "UserNotFound", user_id |-> user_id,
          ranking_type |-> ranking_type, rank |-> 0, value |-> 0]
    ELSE LET row == d.users[user_id]
         IN [kind |-> "rank", result |-> "ok", user_id |-> user_id,
             ranking_type |-> ranking_type,
             rank |-> Cardinality({o \in DOMAIN d.users :
                                     ahead_of(d.users[o], row, ranking_type)}) + 1,
             value |-> ranking_field(row, ranking_type)]

\* ORDER BY of the top list: by the field descending, for the level ranking
\* by the level and then the field; rows that tie come out in the order of
\* their rowid, the order in which the accounts were created
listed_before(a, b, ranking_type) ==
    IF ranking_type = "level" /\ a.level # b.level THEN a.level > b.level
    ELSE IF ranking_field(a, ranking_type) # ranking_field(b, ranking_type)
    THEN ranking_field(a, ranking_type) > ranking_field(b, ranking_type)
    ELSE a.rowid < b.rowid

\* LIMIT ?: the first limit rows of the accounts in from, in that order; a
\* negative limit is no limit in SQLite and every row is returned
RECURSIVE top_rows(_, _, _, _)
top_rows(d, from, ranking_type, limit) ==
    IF limit = 0 \/ from = {} THEN <<>>
    ELSE LET first == CHOOSE u \in from :
                         \A o \in from \ {u} :
                            listed_before(d.users[u], d.users[o], ranking_type)
         IN <<first>> \o top_rows(d, from \ {first}, ranking_type, limit - 1)

get_ranking_data(d, ranking_type, limit) ==
    IF ranking_type \notin RankingTypes
    THEN [kind |-> "top", result |-> "UnsupportedType",
          ranking_type |-> ranking_type, limit |-> limit, data |-> <<>>]
    ELSE LET listed == {u \in DOMAIN d.users :
                           ranking_field(d.users[u], ranking_type) > 0}
             ids == top_rows(d, listed, ranking_type, limit)
         IN [kind |-> "top", result |-> "ok", ranking_type |-> ranking_type,
             limit |-> limit,
             data |-> [i \in 1..Len(ids) |->
                          [rank |-> i, user_id |-> ids[i],
                           value |-> ranking_field(d.users[ids[i]], ranking_type)]]]

\* the user-info page: a user without an account compares as NULL with
\* every row and is ranked first
get_user_ranking(d, user_id) ==
    LET has == user_id \in DOMAIN d.users
        row == d.users[user_id]
    IN [kind |-> "user_ranking", user_id |-> user_id,
        money_rank |->
            Cardinality({o \in DOMAIN d.users :
                            has /\ d.users[o].money > row.money}) + 1,
        assets_rank |->
            Cardinality({o \in DOMAIN d.users :
                            has /\ d.users[o].money + d.users[o].bank_money
                                       > row.money + row.bank_money}) + 1,
        checkin_rank |->
            Cardinality({o \in DOMAIN d.users :
                            has /\ \/ d.users[o].checkin_streak > row.checkin_streak
                                   \/ /\ d.users[o].checkin_streak = row.checkin_streak
                                      /\ d.users[o].total_checkin
                                             > row.total_checkin}) + 1]

RankLimits == {-1, 0, 1, 2}
RankConfigs == {DefaultConfig, GameConfig}
RankBonusDraws(user_id) ==
    IF user_id = "u1" THEN {random_bonus_min} ELSE RandomBonusDraws

RankInfo(user_id, ranking_type) ==
    /\ shown' = get_user_ranking_info(DB, user_id, ranking_type)
    /\ UNCHANGED <<tables, now, tz, config, conns, snap>>

RankingData(ranking_type, limit) ==
    /\ shown' = get_ranking_data(DB, ranking_type, limit)
    /\ UNCHANGED <<tables, now, tz, config, conns, snap>>

UserRanking(user_id) ==
    /\ shown' = get_user_ranking(DB, user_id)
    /\ UNCHANGED <<tables, now, tz, config, conns, snap>>

\* No account yet, or u1 alone after checkins on the days 0, 1, 2 and,
\* a day missed, 4, and a deposit of 100 on that day.
RankSeed ==
    deposit(daily_checkin(CheckinsFrom(EmptyDB, 0, 2),
                          "u1", "A", 0, 4, 4 * HoursPerDay).db,
            "u1", "A", 100, 4 * HoursPerDay).db

InitRank ==
    /\ \E k \in {0, 1} :
          snap = [db |-> IF k = 0 THEN EmptyDB ELSE RankSeed,
                  now |-> 4 * HoursPerDay]
    /\ Load(snap.db)
    /\ now = snap.now
    /\ tz = 0
    /\ shown = NoResult
    /\ config \in RankConfigs
    /\ conns = <<>>

NextRank ==
    \/ \E u \in Users : \E r \in RankBonusDraws(u) : Checkin(u, NameOf(u), r)
    \/ \E u \in Users : GetCheckinInfo(u, NameOf(u))
    \/ \E u \in Users : GetUserBasicInfo(u, NameOf(u))
    \/ \E u \in Users : GetAvailableJobs(u, NameOf(u))
    \/ \E u \in Users : GetBankInfo(u, NameOf(u))
    \/ \E u \in {"u2"} : Work(u, NameOf(u), "banzhuan", 60, FALSE)
    \/ \E u \in {"u1"} : Deposit(u, NameOf(u), 100)
    \/ \E u \in {"u1"} : Withdraw(u, NameOf(u), 100)
    \/ \E f \in {"u1"}, t \in {"u2"} :
          Transfer(f, t, NameOf(f), NameOf(t), 100)
    \/ \E r \in Users, v \in Users :
          \E ok \in BOOLEAN, a \in RobSamples(DB, v, config) :
              Rob(r, NameOf(r), v, NameOf(v), ok, a)
    \/ AccrueDailyInterest
    \/ \E h \in TickSteps : Tick(h)
    \/ \E u \in Users, m \in RankingTypes : RankInfo(u, m)
    \/ \E m \in RankingTypes, n \in RankLimits : RankingData(m, n)
    \/ \E u \in Users : UserRanking(u)

SpecRank == InitRank /\ [][NextRank]_vars

-----------------------------------------------------------------------------
(* daily_checkin statement by statement, called several times at once for  *)
(* the same user on the same day, each call on connections of its own. The *)
(* UPDATE writes the values computed from the row the call read; the       *)
(* UPDATE, the INSERT and the commit are one transaction under the write   *)
(* lock of the database, rolled back when the INSERT fails.                *)

\* an INSERT that is accepted whatever the table holds
NoUniqueConstraint(d, user_id, day) == TRUE

\* UNIQUE(user_id, checkin_date) of checkin_records: the INSERT is accepted
\* when the table has no row of the user for the day
unique_checkin(d, user_id, day) == ~has_checkin_record(d, user_id, day)

\* line 55
CheckinEnsure(c) ==
    /\ At(c, "called", "checkin")
    /\ write_lock_free(c, conns[c].user)
    /\ Commit(ensure_user_exists(DB, conns[c].user, NameOf(conns[c].user), now))
    /\ conns' = [conns EXCEPT ![c].pc = "read_record",
                              ![c].today = date_today(now, tz)]
    /\ UNCHANGED <<now, tz, config, snap, shown>>

\* lines 64-75: the record of today is looked up
CheckinReadRecord(c) ==
    /\ At(c, "read_record", "checkin")
    /\ IF has_checkin_record(DB, conns[c].user, conns[c].today)
       THEN conns' = [conns EXCEPT ![c].pc = "done",
                                   ![c].result = "AlreadyCheckedIn",
                                   ![c].failed_at = "read_record"]
       ELSE Goto(c, "read_user")
    /\ UNCHANGED <<tables, now, tz, config, snap, shown>>

\* lines 78-108: the row of the user is read and the streak computed; a
\* last checkin of today returns
CheckinReadUser(c) ==
    /\ At(c, "read_user", "checkin")
    /\ LET row == users[conns[c].user]
           streak == new_streak(row.last_checkin, row.checkin_streak,
                                conns[c].today)
       IN IF streak = 0
          THEN conns' = [conns EXCEPT ![c].pc = "done",
                                      ![c].result = "AlreadyCheckedIn",
                                      ![c].failed_at = "read_user"]
          ELSE conns' = [conns EXCEPT ![c].pc = "write",
                                      ![c].money = row.money,
                                      ![c].total_checkin = row.total_checkin,
                                      ![c].streak = streak]
    /\ UNCHANGED <<tables, now, tz, config, snap, shown>>

\* lines 111-151: the reward, the UPDATE, the INSERT and the commit, or the
\* rollback of the except clause when the INSERT is refused
CheckinWrite(c) ==
    /\ At(c, "write", "checkin")
    /\ write_lock_free(c, conns[c].user)
    /\ LET u == conns[c].user
           reward == calculate_reward(conns[c].streak, conns[c].random_bonus)
           read == [DB EXCEPT !.users[u].money = conns[c].money,
                              !.users[u].total_checkin = conns[c].total_checkin]
           pending == checkin_apply(read, u, conns[c].today, conns[c].streak,
                                    reward.total, now)
       IN IF unique_checkin(DB, u, conns[c].today)
          THEN Commit(pending) /\ Return(c, "ok")
          ELSE /\ Commit(rollback(DB, pending))
               /\ conns' = [conns EXCEPT ![c].pc = "done",
                                         ![c].result = "SystemError",
                                         ![c].failed_at = "write"]
    /\ UNCHANGED <<now, tz, config, snap, shown>>

\* NumCalls calls for u1, who has not checked in today, each with a random
\* bonus of its own
InitCheckinSteps ==
    /\ \E k \in {0, 2} :
          snap = [db |-> StreakHistory("u1", k), now |-> k * HoursPerDay]
    /\ Load(snap.db)
    /\ now = snap.now
    /\ tz = 0
    /\ shown = NoResult
    /\ config = DefaultConfig
    /\ \E draws \in [1..NumCalls -> RandomBonusDraws] :
          conns = [c \in 1..NumCalls |->
                      [random_bonus |-> draws[c], today |-> 0, streak |-> 0,
                       total_checkin |-> 0]
                      @@ ConnStart("checkin", "u1", "u1", 0)]

NextCheckinSteps ==
    \/ \E c \in DOMAIN conns : CheckinEnsure(c)
    \/ \E c \in DOMAIN conns : CheckinReadRecord(c)
    \/ \E c \in DOMAIN conns : CheckinReadUser(c)
    \/ \E c \in DOMAIN conns : CheckinWrite(c)

SpecCheckinSteps == InitCheckinSteps /\ [][NextCheckinSteps]_vars

-----------------------------------------------------------------------------
(* Every call that moves or creates money, one after the other, over       *)
(* several days: u1 robs u2, banks, transfers and works, u2 checks in, the *)
(* daily interest is accrued.                                              *)

MoneyAmounts == {5, 100}

InitMoney ==
    /\ config = GameConfig
    /\ tz = 0
    /\ \E k \in {0, 1} :
          snap = [db |-> Heist(k, config), now |-> 4 * HoursPerDay]
    /\ Load(snap.db)
    /\ now = snap.now
    /\ conns = <<>>
    /\ shown = NoResult

NextMoney ==
    \/ \E ok \in BOOLEAN, a \in RobSamples(DB, "u2", config) :
          RobCall("u1", NameOf("u1"), "u2", NameOf("u2"), ok, a)
    \/ \E a \in MoneyAmounts : Deposit("u1", NameOf("u1"), a)
    \/ \E a \in MoneyAmounts : Withdraw("u1", NameOf("u1"), a)
    \/ \E a \in MoneyAmounts : Transfer("u1", "u2", NameOf("u1"), NameOf("u2"), a)
    \/ Checkin("u2", NameOf("u2"), random_bonus_max)
    \/ Work("u1", NameOf("u1"), "banzhuan", 60, FALSE)
    \/ AccrueDailyInterest
    \/ \E h \in TickSteps : Tick(h)

SpecMoney == InitMoney /\ [][NextMoney]_vars

-----------------------------------------------------------------------------
(* What the claims speak of.                                               *)

Today == date_today(now, tz)

CashOf(us, u) == IF u \in DOMAIN us THEN us[u].money ELSE 0
SavingsOf(us, u) == IF u \in DOMAIN us THEN us[u].bank_money ELSE 0

\* the records a step appends to a log
Appended(log, log2) == SubSeq(log2, Len(log) + 1, Len(log2))
IsPrefix(log, log2) == Len(log) <= Len(log2) /\ SubSeq(log2, 1, Len(log)) = log

NewTx == Appended(bank_transactions, bank_transactions')
NewWork == Appended(work_records, work_records')
NewCheckin == Appended(checkin_records, checkin_records')
NewRob == Appended(robbery_records, robbery_records')

\* a step in which user_id checked in, and the record it wrote
CheckedIn(user_id) ==
    /\ Len(NewCheckin) = 1
    /\ NewCheckin[1].user_id = user_id

\* every call of a manager the ledger is followed with, as one record: the
\* operation, the caller and the name it goes by, the other party and the
\* name passed for it, the amount, the job, the draw and the flag drawn
CallRec(op, user_id, username, other, other_name, amount, job_name, draw, flag) ==
    [op |-> op, user |-> user_id, name |-> username, other |-> other,
     other_name |-> other_name, amount |-> amount, job |-> job_name,
     draw |-> draw, flag |-> flag]

AllCalls(d, cfg) ==
    {CallRec("checkin", u, n, u, n, 0, "", r, FALSE) :
        u \in Users, n \in {"A", "A2", "B"}, r \in RandomBonusDraws}
    \cup {CallRec("work", u, NameOf(u), u, NameOf(u), 0, js[1], js[2][1],
                  js[2][2]) :
        u \in Users,
        js \in UNION {{<<j, sd>> : sd \in SalarySamples(j)} : j \in JobInputs}}
    \cup {CallRec("deposit", u, NameOf(u), u, NameOf(u), a, "", 0, FALSE) :
        u \in Users, a \in DepositAmounts}
    \cup {CallRec("withdraw", u, NameOf(u), u, NameOf(u), a, "", 0, FALSE) :
        u \in Users, a \in WithdrawAmounts}
    \cup {CallRec("transfer", f, NameOf(f), t, NameOf(t), a, "", 0, FALSE) :
        f \in Users, t \in Users, a \in TransferAmounts}
    \cup {CallRec("rob", r, n, va[1], NameOf(va[1]), 0, "", va[2], ok) :
        r \in Users, n \in {"A", "A2", "B"}, ok \in BOOLEAN,
        va \in UNION {{<<v, a>> : a \in RobSamples(d, v, cfg)} : v \in Users}}

\* the operation of its manager that the record c names, called with the
\* arguments of c
ManagerCall(d, c, cfg, t, z) ==
    CASE c.op = "checkin" ->
            daily_checkin(d, c.user, c.name, c.draw, date_today(t, z), t)
      [] c.op = "work" ->
            work(d, c.user, c.name, c.job, c.draw, c.flag, cfg, t, z)
      [] c.op = "deposit" -> deposit(d, c.user, c.name, c.amount, t)
      [] c.op = "withdraw" -> withdraw(d, c.user, c.name, c.amount, t, z)
      [] c.op = "transfer" ->
            transfer(d, c.user, c.other, c.name, c.other_name, c.amount, t)
      [] OTHER ->
            rob_user(d, c.user, c.name, c.other, c.other_name, c.flag,
                     c.draw, cfg, t, z)

Declined(result) == result \notin {"ok", "robbed", "caught"}

Mentions(u) ==
    \/ \E i \in 1..Len(bank_transactions) : bank_transactions[i].user_id = u
    \/ \E i \in 1..Len(work_records) : work_records[i].user_id = u
    \/ \E i \in 1..Len(checkin_records) : checkin_records[i].user_id = u
    \/ \E i \in 1..Len(robbery_records) :
          u \in {robbery_records[i].robber_id, robbery_records[i].victim_id}

-----------------------------------------------------------------------------
(* C1 *)

\* C1: after any sequence of checkin, work, deposit, withdraw, transfer, rob
\* and interest calls, every account has cash >= 0 and savings >= 0.
C1_BalancesNonNegative ==
    \A u \in DOMAIN users : users[u].money >= 0 /\ users[u].bank_money >= 0

\* a caught robber who paid a penalty that took all the cash there was
C1_Witness ==
    \E i \in 1..Len(robbery_records) :
        /\ ~robbery_records[i].success
        /\ robbery_records[i].amount > 0
        /\ robbery_records[i].amount < config.robbery_failure_penalty
        /\ users[robbery_records[i].robber_id].money = 0

-----------------------------------------------------------------------------
(* C2 *)

\* C2: when all of the concurrent withdraw calls of one amount have
\* returned, at most floor(savings / amount) of them succeeded and the
\* savings are the initial savings less amount times the successes, never
\* negative.
C2_ConcurrentWithdrawsSerialize ==
    (\A c \in DOMAIN conns : At(c, "done", "withdraw")) =>
        LET u == conns[1].user
            amount == conns[1].amount
            savings == SavingsOf(snap.db.users, u)
            successes == Cardinality({c \in DOMAIN conns :
                                         conns[c].result = "ok"})
        IN /\ successes <= savings \div amount
           /\ SavingsOf(users, u) = savings - amount * successes
           /\ SavingsOf(users, u) >= 0

-----------------------------------------------------------------------------
(* C3 *)

\* a step that changes no balance, no other field of an existing account
\* and no log; an account it creates has the column defaults
NothingChanged ==
    /\ \A u \in DOMAIN users : u \in DOMAIN users' /\ users'[u] = users[u]
    /\ \A u \in DOMAIN users' \ DOMAIN users :
          users'[u] = NewUser(users'[u].username, users'[u].rowid, now)
    /\ UNCHANGED <<bank_transactions, work_records, checkin_records,
                   robbery_records>>

\* a step that is one whole transfer
WholeTransfer ==
    \E f \in DOMAIN users, t \in DOMAIN users, a \in TransferAmounts :
        /\ f # t
        /\ users' = [users EXCEPT ![f].bank_money = @ - a,
                                  ![t].bank_money = @ + a]
        /\ Len(NewTx) = 2
        /\ \E i, j \in 1..2 :
              /\ NewTx[i].user_id = f
              /\ NewTx[i].transaction_type = "transfer_out"
              /\ NewTx[i].amount = a
              /\ NewTx[j].user_id = t
              /\ NewTx[j].transaction_type = "transfer_in"
              /\ NewTx[j].amount = a
        /\ IsPrefix(bank_transactions, bank_transactions')
        /\ UNCHANGED <<work_records, checkin_records, robbery_records>>

\* C3: the ledger moves only by whole transfers, whatever statement of
\* transfer a fault hits: either the sender is debited, the recipient is
\* credited and one transfer_out and one transfer_in are appended, or no
\* account changes and no record is written.
C3_TransferAllOrNothing == [][WholeTransfer \/ NothingChanged]_vars

\* a fault that hit after both UPDATEs and the first INSERT, and a ledger
\* that shows none of them
C3_Witness ==
    \E c \in DOMAIN conns :
        /\ conns[c].result = "SystemError"
        /\ conns[c].failed_at = "insert_in"
        /\ SavingsOf(users, conns[c].user) >= conns[c].amount
        /\ bank_transactions = snap.db.bank_transactions

-----------------------------------------------------------------------------
(* C4 *)

SignedAmount(tx) ==
    IF tx.transaction_type \in {"deposit", "transfer_in", "interest"}
    THEN tx.amount ELSE 0 - tx.amount

RECURSIVE ReplaySavings(_, _, _)
ReplaySavings(txs, u, i) ==
    IF i = 0 THEN 0
    ELSE ReplaySavings(txs, u, i - 1)
         + (IF txs[i].user_id = u THEN SignedAmount(txs[i]) ELSE 0)

\* balance_after of the user's latest record before position i, 0 if none
RECURSIVE BalanceBeforePos(_, _, _)
BalanceBeforePos(txs, u, i) ==
    IF i = 1 THEN 0
    ELSE IF txs[i - 1].user_id = u THEN txs[i - 1].balance_after
    ELSE BalanceBeforePos(txs, u, i - 1)

\* C4: replaying a user's TransactionRecords from zero yields the current
\* savings; each record starts from the balance the previous one left and
\* the last one leaves the current savings.
C4_ReplayReproducesSavings ==
    \A u \in Users :
        /\ ReplaySavings(bank_transactions, u, Len(bank_transactions))
              = SavingsOf(users, u)
        /\ \A i \in 1..Len(bank_transactions) :
              bank_transactions[i].user_id = u =>
                  bank_transactions[i].balance_before
                      = BalanceBeforePos(bank_transactions, u, i)
        /\ BalanceBeforePos(bank_transactions, u, Len(bank_transactions) + 1)
              = SavingsOf(users, u)

\* a sender with a deposit and a transfer_out, and the recipient's transfer_in
C4_Witness ==
    \E i, j, k \in 1..Len(bank_transactions) :
        /\ bank_transactions[i].transaction_type = "deposit"
        /\ bank_transactions[j].transaction_type = "transfer_out"
        /\ bank_transactions[i].user_id = bank_transactions[j].user_id
        /\ bank_transactions[k].transaction_type = "transfer_in"
        /\ bank_transactions[k].user_id # bank_transactions[j].user_id

-----------------------------------------------------------------------------
(* C5 *)

\* what one new record does to the cash and to the savings of user u
TxCash(tx) ==
    IF tx.transaction_type = "deposit" THEN 0 - tx.amount
    ELSE IF tx.transaction_type = "withdraw" THEN tx.amount
    ELSE 0

RobCash(rec, u) ==
    (IF rec.robber_id = u
     THEN (IF rec.success THEN rec.amount ELSE 0 - rec.amount) ELSE 0)
    + (IF rec.victim_id = u
       THEN (IF rec.success THEN 0 - rec.amount ELSE rec.amount) ELSE 0)

RECURSIVE SumOver(_, _, _)
SumOver(F(_), recs, i) ==
    IF i = 0 THEN 0 ELSE SumOver(F, recs, i - 1) + F(recs[i])

NewRecordsOf(u) ==
    Cardinality({i \in 1..Len(NewTx) : NewTx[i].user_id = u})
    + Cardinality({i \in 1..Len(NewWork) : NewWork[i].user_id = u})
    + Cardinality({i \in 1..Len(NewCheckin) : NewCheckin[i].user_id = u})
    + Cardinality({i \in 1..Len(NewRob) :
                      u \in {NewRob[i].robber_id, NewRob[i].victim_id}})

NewCashOf(u) ==
    LET OfTx(tx) == IF tx.user_id = u THEN TxCash(tx) ELSE 0
        OfWork(r) == IF r.user_id = u THEN r.total_earned ELSE 0
        OfCheckin(r) == IF r.user_id = u THEN r.reward_money ELSE 0
        OfRob(r) == RobCash(r, u)
    IN SumOver(OfTx, NewTx, Len(NewTx)) + SumOver(OfWork, NewWork, Len(NewWork))
       + SumOver(OfCheckin, NewCheckin, Len(NewCheckin))
       + SumOver(OfRob, NewRob, Len(NewRob))

NewSavingsOf(u) ==
    LET OfTx(tx) == IF tx.user_id = u THEN SignedAmount(tx) ELSE 0
    IN SumOver(OfTx, NewTx, Len(NewTx))

BalanceChanged(u) ==
    \/ CashOf(users', u) # CashOf(users, u)
    \/ SavingsOf(users', u) # SavingsOf(users, u)

\* the logs only grow, and what a step does to a balance is what the one
\* record it appends for that account says
RecordsMatchBalances ==
    /\ IsPrefix(bank_transactions, bank_transactions')
    /\ IsPrefix(work_records, work_records')
    /\ IsPrefix(checkin_records, checkin_records')
    /\ IsPrefix(robbery_records, robbery_records')
    /\ \A u \in Users :
          /\ CashOf(users', u) - CashOf(users, u) = NewCashOf(u)
          /\ SavingsOf(users', u) - SavingsOf(users, u) = NewSavingsOf(u)
          /\ BalanceChanged(u) => NewRecordsOf(u) = 1

OnlyZeroRobberies(u) ==
    /\ NewTx = <<>> /\ NewWork = <<>> /\ NewCheckin = <<>>
    /\ \A i \in 1..Len(NewRob) : NewRob[i].amount = 0

\* C5 as claimed: every change of a balance comes with exactly one matching
\* record for that account in the same step, and no record is appended for
\* an account whose balances did not change.
C5_RecordIffBalanceChange ==
    [][/\ RecordsMatchBalances
       /\ \A u \in Users : NewRecordsOf(u) > 0 => BalanceChanged(u)]_vars

\* C5 as amended: the same, except that a robbery that reached the draw
\* appends its RobberyRecord even when the amount or the penalty is 0.
C5_RecordIffBalanceChangeButZeroRobbery ==
    [][/\ RecordsMatchBalances
       /\ \A u \in Users :
             NewRecordsOf(u) > 0 => BalanceChanged(u) \/ OnlyZeroRobberies(u)]_vars

\* a robbery recorded with amount 0
C5_Witness ==
    \E i \in 1..Len(robbery_records) : robbery_records[i].amount = 0

-----------------------------------------------------------------------------
(* C6 *)

\* C6: total_earned, exp and total_checkin of an account never decrease.
C6_CountersNeverDecrease ==
    [][\A u \in DOMAIN users :
          /\ u \in DOMAIN users'
          /\ users'[u].total_earned >= users[u].total_earned
          /\ users'[u].exp >= users[u].exp
          /\ users'[u].total_checkin >= users[u].total_checkin]_vars

\* an account that earned, gained experience, checked in on two days and
\* holds savings
C6_Witness ==
    \E u \in DOMAIN users :
        /\ users[u].total_earned > 0
        /\ users[u].exp > 0
        /\ users[u].total_checkin >= 2
        /\ users[u].bank_money > 0

-----------------------------------------------------------------------------
(* C7 *)

SameLogs(d) ==
    /\ d.bank_transactions = bank_transactions
    /\ d.work_records = work_records
    /\ d.checkin_records = checkin_records
    /\ d.robbery_records = robbery_records

\* C7 as claimed: a declined call leaves the account table, the set of
\* accounts and the display names included, and all four logs as they were.
C7_DeclinedChangesNothing ==
    \A c \in AllCalls(DB, config) :
        LET out == ManagerCall(DB, c, config, now, tz)
        IN Declined(out.result) => out.db = DB

\* C7 as amended: a declined call leaves all four logs and every field but
\* the display name and the time of the last update of every existing
\* account as they were; it may create the accounts of its participants,
\* with the column defaults; only a declined rob changes a display name or
\* a time of last update, only of its two participants, and the renamed
\* account carries the time of the call as the time of its last update.
C7_DeclinedChangesNoBalanceNoLog ==
    \A c \in AllCalls(DB, config) :
        LET out == ManagerCall(DB, c, config, now, tz)
        IN Declined(out.result) =>
             /\ SameLogs(out.db)
             /\ \A u \in DOMAIN users :
                   /\ u \in DOMAIN out.db.users
                   /\ [out.db.users[u] EXCEPT
                          !.username = users[u].username,
                          !.updated_at = users[u].updated_at] = users[u]
                   /\ (\/ out.db.users[u].username # users[u].username
                       \/ out.db.users[u].updated_at # users[u].updated_at)
                      => /\ c.op = "rob" /\ u \in {c.user, c.other}
                         /\ out.db.users[u].updated_at = now
             /\ \A u \in DOMAIN out.db.users \ DOMAIN users :
                   /\ u \in {c.user, c.other}
                   /\ out.db.users[u]
                         = NewUser(out.db.users[u].username,
                                   out.db.users[u].rowid, now)

\* an account that only declined calls have touched: no log mentions it,
\* it has the column defaults, and a declined rob on a later day has
\* renamed it and set the time of its last update
C7_Witness ==
    \E u \in DOMAIN users :
        /\ ~Mentions(u)
        /\ users[u].updated_at > users[u].created_at
        /\ [users[u] EXCEPT !.updated_at = users[u].created_at]
              = NewUser(users[u].username, users[u].rowid, users[u].created_at)
        /\ \E v \in DOMAIN users : v # u /\ Mentions(v)

-----------------------------------------------------------------------------
(* C8 *)

\* C8: a second checkin of a user on a day is rejected as AlreadyCheckedIn
\* and changes nothing, and no two CheckinRecords share (user, date).
C8_SecondCheckinRejected ==
    /\ \A u \in DOMAIN users :
          (has_checkin_record(DB, u, Today) \/ users[u].last_checkin = Today)
          => \A r \in RandomBonusDraws :
                daily_checkin(DB, u, NameOf(u), r, Today, now)
                    = Out(DB, "AlreadyCheckedIn")
    /\ \A i, j \in 1..Len(checkin_records) :
          (/\ checkin_records[i].user_id = checkin_records[j].user_id
           /\ checkin_records[i].checkin_date = checkin_records[j].checkin_date)
          => i = j
    /\ \A u \in DOMAIN users :
          users[u].total_checkin
              = Cardinality({i \in 1..Len(checkin_records) :
                                checkin_records[i].user_id = u})

\* a user who checked in yesterday and again today
C8_Witness ==
    \E u \in DOMAIN users :
        /\ has_checkin_record(DB, u, Today)
        /\ has_checkin_record(DB, u, Today - 1)
        /\ users[u].last_checkin = Today

-----------------------------------------------------------------------------
(* C9 *)

\* the streak the claim expects of a checkin by u in the current state
ExpectedStreak(u) ==
    IF /\ u \in DOMAIN users
       /\ users[u].last_checkin # NULL
       /\ Today - users[u].last_checkin = 1
    THEN users[u].checkin_streak + 1
    ELSE 1

\* C9: a successful checkin makes the streak oldStreak + 1 when the last
\* checkin was exactly one day before today and 1 otherwise, in the account
\* and in the CheckinRecord.
C9_StreakLaw ==
    [][\A u \in Users :
          CheckedIn(u) =>
              /\ users'[u].checkin_streak = ExpectedStreak(u)
              /\ NewCheckin[1].consecutive_days = ExpectedStreak(u)]_vars

\* one user on a streak of two days, another back to 1 after a gap
C9_Witness ==
    /\ \E u \in DOMAIN users :
          users[u].checkin_streak = 2 /\ users[u].last_checkin = Today - 1
    /\ \E u \in DOMAIN users :
          /\ users[u].checkin_streak = 1
          /\ users[u].total_checkin = 2
          /\ users[u].last_checkin = Today

-----------------------------------------------------------------------------
(* C10 *)

\* the bonus of the highest tier reached, as the claim lists the tiers
TierBonus(streak) ==
    CASE streak >= 30 -> 1000
      [] streak \in 15..29 -> 500
      [] streak \in 7..14 -> 200
      [] streak \in 3..6 -> 50
      [] OTHER -> 0

\* C10: a successful checkin adds 100 + r + bonus(new streak) to the cash,
\* r in 0..50, adds 1 to total_checkin, sets last_checkin to today and
\* records the same total.
C10_CheckinReward ==
    [][\A u \in Users :
          CheckedIn(u) =>
              /\ \E r \in random_bonus_min..random_bonus_max :
                    CashOf(users', u) - CashOf(users, u)
                        = 100 + r + TierBonus(users'[u].checkin_streak)
              /\ NewCheckin[1].reward_money
                    = CashOf(users', u) - CashOf(users, u)
              /\ users'[u].total_checkin
                    = (IF u \in DOMAIN users THEN users[u].total_checkin ELSE 0)
                      + 1
              /\ users'[u].last_checkin = Today
              /\ NewCheckin[1].checkin_date = Today]_vars

\* the seventh day of a streak, paid 100 + r + 200
C10_Witness ==
    \E i \in 1..Len(checkin_records) :
        /\ checkin_records[i].consecutive_days = 7
        /\ checkin_records[i].reward_money \in {300, 350}
        /\ users[checkin_records[i].user_id].checkin_streak = 7

-----------------------------------------------------------------------------
(* C11 *)

\* C11: the level never falls when the experience grows, and is at least 1.
C11_LevelMonotone ==
    [][/\ shown'.current_level >= 1
       /\ shown.current_exp <= shown'.current_exp
             => shown.current_level <= shown'.current_level]_vars

\* the first experience of the last band
C11_Witness == shown.current_exp = 4000 /\ shown.current_level = 16

-----------------------------------------------------------------------------
(* C12 *)

\* the cumulative thresholds as the claim gives them
Threshold(L) ==
    IF L <= 5 THEN (L - 1) * 100
    ELSE IF L <= 10 THEN 500 + (L - 6) * 200
    ELSE IF L <= 15 THEN 1500 + (L - 11) * 500
    ELSE 4000 + (L - 16) * 1000

\* C12: the level of exp is the one L with
\* threshold(L) <= exp < threshold(L + 1).
C12_LevelMatchesThresholds ==
    /\ Threshold(shown.current_level) <= shown.current_exp
    /\ shown.current_exp < Threshold(shown.current_level + 1)
    /\ \A L \in 1..20 :
          (Threshold(L) <= shown.current_exp
           /\ shown.current_exp < Threshold(L + 1))
          => L = shown.current_level

\* the last experience of level 10
C12_Witness == shown.current_exp = 1499 /\ shown.current_level = 10

-----------------------------------------------------------------------------
(* C13 *)

\* C13: the span reported for the current level is
\* threshold(level + 1) - threshold(level), progress and need add up to it,
\* and the percentage lies in 0..99 and is 99 one point before a level-up.
C13_LevelProgress ==
    /\ shown.exp_for_current_level
          = Threshold(shown.current_level + 1) - Threshold(shown.current_level)
    /\ shown.level_progress + shown.exp_needed = shown.exp_for_current_level
    /\ shown.progress_percentage \in 0..99
    /\ shown.exp_needed = 1 => shown.progress_percentage = 99

-----------------------------------------------------------------------------
(* C14 *)

\* the row of a user, the column defaults if there is none yet
RowOf(us, u) == IF u \in DOMAIN us THEN us[u] ELSE NewUser("", 0, 0)

\* a step that is a call of work, reported in shown'
WorkStep == now' = now /\ shown'.kind = "work"

\* C14: a work call for a job that is not in the catalog, or whose
\* level_required is above the user's level, is declined, appends no
\* WorkRecord and leaves cash, total_earned, exp and level as they were;
\* every WorkRecord appended is for a job whose gate the user met.
C14_WorkGate ==
    [][WorkStep =>
         LET u == shown'.user_id
             j == shown'.job_name
             before == RowOf(users, u)
             after == RowOf(users', u)
         IN /\ (j \notin DOMAIN jobs \/ before.level < jobs[j].level_required)
                  => /\ shown'.result
                           = (IF j \notin DOMAIN jobs THEN "UnknownJob"
                              ELSE "LevelTooLow")
                     /\ work_records' = work_records
                     /\ after.money = before.money
                     /\ after.total_earned = before.total_earned
                     /\ after.exp = before.exp
                     /\ after.level = before.level
            /\ \A i \in 1..Len(NewWork) :
                  /\ NewWork[i].work_type \in DOMAIN jobs
                  /\ RowOf(users, NewWork[i].user_id).level
                        >= jobs[NewWork[i].work_type].level_required]_vars

\* a user with a WorkRecord who was then turned away from a job above
\* their level
C14_Witness ==
    /\ shown.kind = "work"
    /\ shown.result = "LevelTooLow"
    /\ \E i \in 1..Len(work_records) : work_records[i].user_id = shown.user_id

-----------------------------------------------------------------------------
(* C15 *)

\* the WorkRecords of a user stamped with one calendar day
WorkRecordsOn(u, day) ==
    {i \in 1..Len(work_records) :
        /\ work_records[i].user_id = u
        /\ sql_date(work_records[i].work_time) = day}

\* C15: with the daily work limit L of the configuration, no user has more
\* than L WorkRecords in one calendar day, and a user who has L of them
\* today is declined with DailyQuotaExceeded.
C15_DailyWorkQuota ==
    \A u \in Users :
        /\ \A i \in 1..Len(work_records) :
              Cardinality(WorkRecordsOn(u, sql_date(work_records[i].work_time)))
                  <= config.daily_work_limit
        /\ Cardinality(WorkRecordsOn(u, sql_date(now)))
              >= config.daily_work_limit
           => \A j \in DOMAIN jobs :
                 RowOf(users, u).level >= jobs[j].level_required
                 => work(DB, u, NameOf(u), j, jobs[j].salary_min, FALSE,
                         config, now, tz).result = "DailyQuotaExceeded"

-----------------------------------------------------------------------------
(* C16 *)

\* C16: two WorkRecords of one user for one job are at least
\* cooldown_hours x work_cooldown_multiplier apart, a call inside that time
\* is declined with OnCooldown, and a job the user has not worked is not
\* on cooldown.
C16_WorkCooldown ==
    /\ \A i, k \in 1..Len(work_records) :
          (/\ i < k
           /\ work_records[i].user_id = work_records[k].user_id
           /\ work_records[i].work_type = work_records[k].work_type)
          => work_records[k].work_time - work_records[i].work_time
                >= jobs[work_records[i].work_type].cooldown_hours
                       * config.work_cooldown_multiplier
    /\ \A u \in DOMAIN users, j \in DOMAIN jobs :
          LET result == work(DB, u, NameOf(u), j, jobs[j].salary_min, FALSE,
                             config, now, tz).result
              lw == last_work(DB, u, j)
          IN /\ (lw = NULL) => result # "OnCooldown"
             /\ (/\ lw # NULL
                 /\ now - lw < jobs[j].cooldown_hours
                                   * config.work_cooldown_multiplier
                 /\ result \notin {"LevelTooLow", "DailyQuotaExceeded"})
                => result = "OnCooldown"

-----------------------------------------------------------------------------
(* C17 *)

\* C17: a successful work call appends one WorkRecord whose total_earned
\* is its base_salary plus its bonus (the level bonus and the luck bonus),
\* adds that total to cash and to total_earned, adds the job's experience
\* to exp, sets level to the level of the new exp, and reports a level-up
\* exactly when the level rose; a declined call appends nothing.
C17_WorkPays ==
    [][WorkStep =>
         LET u == shown'.user_id
             j == shown'.job_name
             before == RowOf(users, u)
             after == RowOf(users', u)
             r == NewWork[1]
             level_bonus == (jobs[j].base_salary * (before.level - 1) * 2)
                                \div 100
         IN IF shown'.result = "ok"
            THEN /\ Len(NewWork) = 1
                 /\ r.user_id = u /\ r.work_type = j
                 /\ r.base_salary \in jobs[j].salary_min..jobs[j].salary_max
                 /\ r.bonus - level_bonus \in {0, r.base_salary \div 2}
                 /\ r.total_earned = r.base_salary + r.bonus
                 /\ after.money = before.money + r.total_earned
                 /\ after.total_earned = before.total_earned + r.total_earned
                 /\ after.exp = before.exp
                       + jobs[j].exp_reward * config.work_experience_multiplier
                 /\ Threshold(after.level) <= after.exp
                 /\ after.exp < Threshold(after.level + 1)
                 /\ shown'.level_up = (after.level > before.level)
            ELSE NewWork = <<>>]_vars

\* a work that lifted the user to level 3, and a record with a luck bonus
C17_Witness ==
    /\ shown.kind = "work" /\ shown.result = "ok" /\ shown.level_up
    /\ \E i \in 1..Len(work_records) :
          work_records[i].bonus >= work_records[i].base_salary \div 2
    /\ users[shown.user_id].level = 3

-----------------------------------------------------------------------------
\* C18: deposit(user, amount) succeeds exactly when 10 <= amount <= 100000
\* and amount <= cash; on success the cash goes down and the savings go up
\* by exactly amount and one deposit record is appended; otherwise cash and
\* savings are unchanged, and an amount of 5 is declined as below the
\* minimum.
DepositTries(u) ==
    {5, 9, 10, 100, 100000, 100001, CashOf(users, u), CashOf(users, u) + 1}

C18_DepositLaw ==
    \A u \in Users : \A amount \in DepositTries(u) :
        LET out == deposit(DB, u, NameOf(u), amount, now)
            cash == CashOf(users, u)
            savings == SavingsOf(users, u)
            allowed == 10 <= amount /\ amount <= 100000 /\ amount <= cash
            log == out.db.bank_transactions
        IN /\ (out.result = "ok") <=> allowed
           /\ amount < 10 => out.result = "BelowMinimum"
           /\ IF allowed
              THEN /\ CashOf(out.db.users, u) = cash - amount
                   /\ SavingsOf(out.db.users, u) = savings + amount
                   /\ Len(log) = Len(bank_transactions) + 1
                   /\ IsPrefix(bank_transactions, log)
                   /\ log[Len(log)].user_id = u
                   /\ log[Len(log)].transaction_type = "deposit"
                   /\ log[Len(log)].amount = amount
              ELSE /\ CashOf(out.db.users, u) = cash
                   /\ SavingsOf(out.db.users, u) = savings
                   /\ log = bank_transactions

\* u1 has deposited 100000, the most one deposit may be, and is left with
\* less cash than a further deposit of 100000 needs
C18_Witness ==
    /\ CashOf(users, "u1") >= 10 /\ CashOf(users, "u1") < 100000
    /\ \E i \in DOMAIN bank_transactions :
          /\ i > Len(snap.db.bank_transactions)
          /\ bank_transactions[i].user_id = "u1"
          /\ bank_transactions[i].transaction_type = "deposit"
          /\ bank_transactions[i].amount = 100000

-----------------------------------------------------------------------------
\* C19: the amounts of a user's withdraw records timestamped in one
\* calendar day never add up to more than the daily limit of 200000: a
\* withdraw within the bounds is declined with DailyLimitExceeded whenever
\* the sum withdrawn today plus its amount would exceed the limit; deposits,
\* transfers and interest do not count toward the sum.
RECURSIVE SumAmounts(_)
SumAmounts(txs) ==
    IF txs = <<>> THEN 0 ELSE Head(txs).amount + SumAmounts(Tail(txs))

IsWithdrawOn(tx, u, day) ==
    /\ tx.user_id = u
    /\ tx.transaction_type = "withdraw"
    /\ tx.created_at \div HoursPerDay = day

WithdrawnOn(u, day) ==
    SumAmounts(SelectSeq(bank_transactions, LAMBDA tx : IsWithdrawOn(tx, u, day)))

WithdrawTries(u) ==
    {5, 10, 100, 50000, 50001, SavingsOf(users, u), SavingsOf(users, u) + 1}

C19_DailyWithdrawLimit ==
    \A u \in Users :
        /\ \A i \in DOMAIN bank_transactions :
              WithdrawnOn(u, bank_transactions[i].created_at \div HoursPerDay)
                  <= 200000
        /\ \A amount \in WithdrawTries(u) :
              (/\ 10 <= amount /\ amount <= 50000
               /\ WithdrawnOn(u, now \div HoursPerDay) + amount > 200000)
              => withdraw(DB, u, NameOf(u), amount, now, tz).result
                     = "DailyLimitExceeded"

\* C20: withdraw(user, amount) checks the bounds 10..50000, then the daily
\* limit, then the savings: when all three pass, the savings go down and the
\* cash goes up by exactly amount and one withdraw record is appended; when
\* only the savings fall short it is declined with InsufficientSavings, when
\* the daily limit would be exceeded it is declined with DailyLimitExceeded
\* whether or not the savings fall short too, and a declined withdraw
\* changes no balance and appends nothing.
C20_WithdrawOrder ==
    \A u \in Users : \A amount \in WithdrawTries(u) :
        LET out == withdraw(DB, u, NameOf(u), amount, now, tz)
            cash == CashOf(users, u)
            savings == SavingsOf(users, u)
            in_bounds == 10 <= amount /\ amount <= 50000
            in_limit == WithdrawnOn(u, now \div HoursPerDay) + amount <= 200000
            covered == amount <= savings
            log == out.db.bank_transactions
        IN /\ out.result =
                 (IF amount < 10 THEN "BelowMinimum"
                  ELSE IF amount > 50000 THEN "AboveMaximum"
                  ELSE IF ~in_limit THEN "DailyLimitExceeded"
                  ELSE IF ~covered THEN "InsufficientSavings"
                  ELSE "ok")
           /\ IF in_bounds /\ in_limit /\ covered
              THEN /\ SavingsOf(out.db.users, u) = savings - amount
                   /\ CashOf(out.db.users, u) = cash + amount
                   /\ Len(log) = Len(bank_transactions) + 1
                   /\ IsPrefix(bank_transactions, log)
                   /\ log[Len(log)].user_id = u
                   /\ log[Len(log)].transaction_type = "withdraw"
                   /\ log[Len(log)].amount = amount
              ELSE /\ SavingsOf(out.db.users, u) = savings
                   /\ CashOf(out.db.users, u) = cash
                   /\ log = bank_transactions

-----------------------------------------------------------------------------
\* C21: transfer(from, to, amount) succeeds only when from /= to,
\* 10 <= amount <= 100000 and amount <= from.savings; on success the savings
\* of from go down and those of to go up by exactly amount and the cash of
\* both is unchanged; a transfer to oneself is declined with SelfTransfer and
\* changes nothing.
TransferTries(u) ==
    {5, 10, 100, 100000, 100001, SavingsOf(users, u), SavingsOf(users, u) + 1}

C21_TransferLaw ==
    \A from \in Users : \A to \in Users : \A amount \in TransferTries(from) :
        LET out == transfer(DB, from, to, NameOf(from), NameOf(to), amount, now)
            after == out.db.users
        IN /\ out.result = "ok" =>
                 /\ from /= to
                 /\ 10 <= amount /\ amount <= 100000
                 /\ amount <= SavingsOf(users, from)
                 /\ SavingsOf(after, from) = SavingsOf(users, from) - amount
                 /\ SavingsOf(after, to) = SavingsOf(users, to) + amount
                 /\ CashOf(after, from) = CashOf(users, from)
                 /\ CashOf(after, to) = CashOf(users, to)
           /\ from = to => out.result = "SelfTransfer" /\ out.db = DB

\* u1 has transferred 100000, the most one transfer may be, to u2
C21_Witness ==
    \E i \in DOMAIN bank_transactions :
        /\ i > Len(snap.db.bank_transactions)
        /\ bank_transactions[i].user_id = "u1"
        /\ bank_transactions[i].transaction_type = "transfer_out"
        /\ bank_transactions[i].amount = 100000
        /\ SavingsOf(users, "u2") >= 100000

\* C22: a transfer to a recipient that has no account is declined with
\* RecipientNotFound: no account is created for the recipient, the sender's
\* savings are unchanged and no record is written.
C22_RecipientNotFound ==
    \A from \in DOMAIN users : \A to \in Users \ DOMAIN users :
        \A amount \in TransferTries(from) :
            (10 <= amount /\ amount <= 100000 /\ amount <= SavingsOf(users, from))
            => LET out == transfer(DB, from, to, NameOf(from), NameOf(to),
                                   amount, now)
               IN /\ out.result = "RecipientNotFound"
                  /\ to \notin DOMAIN out.db.users
                  /\ SavingsOf(out.db.users, from) = SavingsOf(users, from)
                  /\ out.db.bank_transactions = bank_transactions

-----------------------------------------------------------------------------
\* C23: accrueDailyInterest, for every account with savings > 0, takes the
\* VIP rate when savings >= vipThreshold and the base rate otherwise,
\* computes interest = floor(savings x rate), and when interest > 0 adds
\* exactly that to the savings and appends one interest record of that
\* amount; an account with savings 0 or interest 0 is unchanged and gets no
\* record. The rates of the configuration are in hundredths of a percent.
ExactInterest(savings) ==
    LET rate == IF savings >= config.vip_threshold
                THEN config.bank_vip_interest_rate
                ELSE config.bank_interest_rate
    IN (savings * rate) \div 10000

InterestRecordsOf(log, u) ==
    SelectSeq(log, LAMBDA tx : tx.user_id = u /\ tx.transaction_type = "interest")

C23_InterestLaw ==
    LET out == apply_daily_interest(DB, config, now)
        new == Appended(bank_transactions, out.db.bank_transactions)
    IN /\ IsPrefix(bank_transactions, out.db.bank_transactions)
       /\ \A i \in DOMAIN new : new[i].transaction_type = "interest"
       /\ \A u \in DOMAIN users :
             LET savings == users[u].bank_money
                 interest == ExactInterest(savings)
                 recs == InterestRecordsOf(new, u)
             IN /\ out.db.users[u].money = users[u].money
                /\ IF savings > 0 /\ interest > 0
                   THEN /\ out.db.users[u].bank_money = savings + interest
                        /\ Len(recs) = 1
                        /\ recs[1].amount = interest
                   ELSE /\ out.db.users[u].bank_money = savings
                        /\ recs = <<>>

-----------------------------------------------------------------------------
\* C24: in accrueDailyInterest each account's accrual is an atomic unit of
\* its own: when the batch fails part-way, the interest and the interest
\* records of the accounts processed before the failure remain applied.
AccruedBefore(c, i) ==
    LET row == conns[c].rows[i]
        interest == interest_of(row.bank_money, config)
    IN interest > 0 =>
          /\ SavingsOf(users', row.user_id) = row.bank_money + interest
          /\ \E k \in DOMAIN bank_transactions' :
                /\ k > Len(conns[c].txn.bank_transactions)
                      - (conns[c].next - 1)
                /\ bank_transactions'[k].user_id = row.user_id
                /\ bank_transactions'[k].transaction_type = "interest"
                /\ bank_transactions'[k].amount = interest

InterestFails(c) ==
    /\ conns[c].op = "interest" /\ conns[c].pc = "loop"
    /\ conns'[c].result = "SystemError" /\ conns'[c].pc = "done"

C24_AccrualsSurviveFailure ==
    [][\A c \in DOMAIN conns :
          InterestFails(c) =>
              \A i \in 1..(conns[c].next - 1) : AccruedBefore(c, i)]_vars

-----------------------------------------------------------------------------
\* The level an account has, 1 for an account that is yet to be created.
LevelOf(us, u) == IF u \in DOMAIN us THEN us[u].level ELSE 1

\* one rob call as it would run in the current state
RobOut(r, v, ok, a) ==
    rob_user(DB, r, NameOf(r), v, NameOf(v), ok, a, config, now, tz)

RobTries(v) == RobCallDraws(DB, v, config)

\* C25: rob is declined, with no cash balance changed and no RobberyRecord
\* appended (so that no cooldown starts), whenever the robber is the victim,
\* the robber's level is below the required level, or the victim's cash is
\* below the protected amount.
C25_RobDeclined ==
    \A r \in Users : \A v \in Users : \A ok \in BOOLEAN : \A a \in RobTries(v) :
        LET out == RobOut(r, v, ok, a)
        IN (\/ r = v
            \/ LevelOf(users, r) < config.robbery_level_requirement
            \/ CashOf(users, v) < config.robbery_protection_amount)
           => /\ out.result \notin {"robbed", "caught"}
              /\ \A u \in Users : CashOf(out.db.users, u) = CashOf(users, u)
              /\ out.db.robbery_records = robbery_records

\* a rob was declined because the victim's cash is under the protected
\* amount, the robber being of the required level and off cooldown
C25_Witness ==
    /\ shown.kind = "rob"
    /\ shown.result = "VictimProtected"
    /\ CashOf(users, shown.victim_id) > 0
    /\ CashOf(users, shown.victim_id) < config.robbery_protection_amount

\* C26: on a successful robbery the amount is cap = min(maxAmount,
\* victim.cash - protectionAmount) when cap < minAmount and otherwise the
\* value drawn in minAmount..cap; the robber's cash goes up and the victim's
\* goes down by exactly that amount, the amount never exceeds maxAmount and
\* the victim is never left with less than protectionAmount.
C26_RobSuccess ==
    \A r \in Users : \A v \in Users : \A a \in RobTries(v) :
        LET out == RobOut(r, v, TRUE, a)
            cap == Min(config.robbery_max_amount,
                       CashOf(users, v) - config.robbery_protection_amount)
            amount == IF cap < config.robbery_min_amount THEN cap ELSE a
            recs == out.db.robbery_records
        IN out.result = "robbed" =>
              /\ CashOf(out.db.users, r) = CashOf(users, r) + amount
              /\ CashOf(out.db.users, v) = CashOf(users, v) - amount
              /\ amount <= config.robbery_max_amount
              /\ cap >= config.robbery_min_amount
                    => config.robbery_min_amount <= amount /\ amount <= cap
              /\ CashOf(out.db.users, v) >= config.robbery_protection_amount
              /\ Len(recs) = Len(robbery_records) + 1
              /\ recs[Len(recs)].success
              /\ recs[Len(recs)].amount = amount

\* a robbery took 220 from a victim with more than 400 in cash, and one took
\* less than the minimum because the cap was below it
C26_Witness ==
    /\ \E i \in DOMAIN robbery_records :
          robbery_records[i].success /\ robbery_records[i].amount = 220
    /\ \E i \in DOMAIN robbery_records :
          /\ robbery_records[i].success
          /\ robbery_records[i].amount < config.robbery_min_amount

\* C27: on a failed robbery the penalty is min(failurePenalty, robber.cash):
\* the robber's cash goes down and the victim's goes up by exactly the
\* penalty, the robber's cash does not go negative, and one RobberyRecord
\* with success = false and amount = penalty is appended.
C27_RobFailure ==
    \A r \in Users : \A v \in Users : \A a \in RobTries(v) :
        LET out == RobOut(r, v, FALSE, a)
            penalty == Min(config.robbery_failure_penalty, CashOf(users, r))
            recs == out.db.robbery_records
        IN out.result = "caught" =>
              /\ CashOf(out.db.users, r) = CashOf(users, r) - penalty
              /\ CashOf(out.db.users, v) = CashOf(users, v) + penalty
              /\ CashOf(out.db.users, r) >= 0
              /\ Len(recs) = Len(robbery_records) + 1
              /\ IsPrefix(robbery_records, recs)
              /\ ~recs[Len(recs)].success
              /\ recs[Len(recs)].amount = penalty
              /\ recs[Len(recs)].robber_id = r
              /\ recs[Len(recs)].victim_id = v

\* a robber with less cash than the penalty was caught and paid all of it
C27_Witness ==
    /\ shown.kind = "rob" /\ shown.result = "caught"
    /\ CashOf(users, shown.robber_id) = 0
    /\ \E i \in DOMAIN robbery_records :
          /\ ~robbery_records[i].success
          /\ robbery_records[i].robber_id = shown.robber_id
          /\ robbery_records[i].amount > 0
          /\ robbery_records[i].amount < config.robbery_failure_penalty

\* C28: the cooldown is per robber and starts with every attempt that
\* reached the draw: a rob is declined with OnCooldown when the robber's
\* latest RobberyRecord as robber is less than cooldownHours before now, so
\* no two RobberyRecords of one robber are closer in time than cooldownHours.
C28_RobCooldown ==
    /\ \A i \in DOMAIN robbery_records : \A k \in DOMAIN robbery_records :
          (i < k /\ robbery_records[i].robber_id = robbery_records[k].robber_id)
          => robbery_records[k].created_at - robbery_records[i].created_at
                 >= config.robbery_cooldown_hours
    /\ \A r \in Users : \A v \in Users \ {r} : \A ok \in BOOLEAN :
          \A a \in RobTries(v) :
              (/\ LevelOf(users, r) >= config.robbery_level_requirement
               /\ \E i \in DOMAIN robbery_records :
                     /\ robbery_records[i].robber_id = r
                     /\ now - robbery_records[i].created_at
                            < config.robbery_cooldown_hours)
              => RobOut(r, v, ok, a).result = "OnCooldown"

\* C29: savings are immune to robbery: no rob call, whatever its outcome,
\* changes the savings of anyone, and the amount taken depends on the
\* victim's cash only, not on the savings.
C29_SavingsImmune ==
    \A r \in Users : \A v \in Users : \A ok \in BOOLEAN : \A a \in RobTries(v) :
        LET out == RobOut(r, v, ok, a)
            poorer == [DB EXCEPT !.users =
                         [u \in DOMAIN users |-> [users[u] EXCEPT !.bank_money = 0]]]
            other == rob_user(poorer, r, NameOf(r), v, NameOf(v), ok, a,
                              config, now, tz)
        IN /\ \A u \in Users :
                 SavingsOf(out.db.users, u) = SavingsOf(users, u)
           /\ other.result = out.result
           /\ \A u \in Users :
                 CashOf(other.db.users, u) = CashOf(out.db.users, u)

\* a robbery succeeded and one failed while the robber holds savings
C29_Witness ==
    /\ shown.kind = "rob"
    /\ \E i \in DOMAIN robbery_records : robbery_records[i].success
    /\ \E i \in DOMAIN robbery_records :
          /\ ~robbery_records[i].success
          /\ SavingsOf(users, robbery_records[i].robber_id) > 0

-----------------------------------------------------------------------------
\* what the robberies recorded in log have moved into the cash of user_id:
\* a robbery that succeeded moves its amount from the victim to the robber,
\* one that failed moves the penalty from the robber to the victim
RobberyCash(log, user_id) ==
    SumAmounts(SelectSeq(log, LAMBDA r :
        \/ r.robber_id = user_id /\ r.success
        \/ r.victim_id = user_id /\ ~r.success))
    - SumAmounts(SelectSeq(log, LAMBDA r :
        \/ r.robber_id = user_id /\ ~r.success
        \/ r.victim_id = user_id /\ r.success))

\* what the deposits recorded in log have taken out of the cash of user_id
DepositedCash(log, user_id) ==
    SumAmounts(SelectSeq(log, LAMBDA tx :
        tx.user_id = user_id /\ tx.transaction_type = "deposit"))

\* C30: the two cash updates of a robbery and its record form one atomic
\* unit: under any interleaving of the statements of robberies, deposits and
\* readers, whoever reads the committed ledger finds every recorded robbery
\* applied to the cash of both of its parties and no cash moved without its
\* record, so the cash of every account is what it was before the calls,
\* plus what the recorded robberies moved, minus what its recorded deposits
\* took.
C30_RobberyAtomic ==
    \A u \in Users :
        CashOf(users, u)
           = CashOf(snap.db.users, u)
             + RobberyCash(robbery_records, u)
             - RobberyCash(snap.db.robbery_records, u)
             - DepositedCash(bank_transactions, u)
             + DepositedCash(snap.db.bank_transactions, u)

-----
\* C31: the checks derived from the logs are evaluated atomically with the
\* write they guard: of concurrent withdraw calls of one user, no more pass
\* the daily limit than could pass it one after the other, so when all of
\* them have returned the amounts withdrawn that day are within the daily
\* limit of 200000 and the successes are at most the room the day had left
\* divided by the amount.
C31_ChecksAtomicWithWrites ==
    (\A c \in DOMAIN conns : At(c, "done", "withdraw")) =>
        LET u == conns[1].user
            amount == conns[1].amount
            day == now \div HoursPerDay
            before == SumAmounts(SelectSeq(snap.db.bank_transactions,
                                           LAMBDA tx : IsWithdrawOn(tx, u, day)))
            successes == Cardinality({c \in DOMAIN conns :
                                         conns[c].result = "ok"})
        IN /\ WithdrawnOn(u, day) <= daily_withdraw_limit
           /\ successes <= (daily_withdraw_limit - before) \div amount

-----------------------------------------------------------------------------
\* C32: two transfers, or two robberies, on the same pair of accounts in
\* opposite directions never deadlock: under fair scheduling both calls
\* eventually return a result.
C32_OppositeCallsReturn ==
    <>(\A c \in DOMAIN conns : conns[c].pc = "done" /\ conns[c].result # "")

\* one of the two calls has its transaction pending and the other, in the
\* opposite direction, stands before its first UPDATE and waits for it
C32_Witness ==
    \E c \in DOMAIN conns :
        /\ conns[c].in_txn
        /\ conns[3 - c].pc \in {"update_from", "update_robber"}
        /\ conns[c].user = conns[3 - c].other
        /\ conns[c].other = conns[3 - c].user

-----------------------------------------------------------------------------
\* C33: the rank of a user on the metrics cash, total assets, total earned,
\* experience and total checkins is one plus the number of accounts that are
\* strictly greater on the metric (for experience: of greater level, or of
\* equal level and greater experience), so accounts with equal values share
\* a rank and the best account has rank 1.
MetricOf(us, u, m) ==
    CASE m = "money" -> us[u].money
      [] m = "assets" -> us[u].money + us[u].bank_money
      [] m = "earned" -> us[u].total_earned
      [] m = "level" -> us[u].exp
      [] OTHER -> us[u].total_checkin

StrictlyGreater(us, o, u, m) ==
    IF m = "level"
    THEN \/ us[o].level > us[u].level
         \/ us[o].level = us[u].level /\ us[o].exp > us[u].exp
    ELSE MetricOf(us, o, m) > MetricOf(us, u, m)

RankOf(u, m) == get_user_ranking_info(DB, u, m)

C33_RankLaw ==
    \A u \in DOMAIN users, m \in RankingTypes :
        /\ RankOf(u, m).result = "ok"
        /\ RankOf(u, m).rank
               = 1 + Cardinality({o \in DOMAIN users :
                                     StrictlyGreater(users, o, u, m)})
        /\ \A o \in DOMAIN users :
              (/\ MetricOf(users, o, m) = MetricOf(users, u, m)
               /\ m = "level" => users[o].level = users[u].level)
              => RankOf(o, m).rank = RankOf(u, m).rank
        /\ (\A o \in DOMAIN users : ~StrictlyGreater(users, o, u, m))
              => RankOf(u, m).rank = 1

\* the rank just reported for u1 on experience is 2 behind an account of the
\* same level, and on another metric the two accounts tie and share rank 1
C33_Witness ==
    /\ DOMAIN users = Users
    /\ shown = RankOf("u1", "level")
    /\ shown.rank = 2
    /\ users["u1"].level = users["u2"].level
    /\ \E m \in RankingTypes :
          /\ MetricOf(users, "u1", m) = MetricOf(users, "u2", m)
          /\ RankOf("u1", m).rank = 1
          /\ RankOf("u2", m).rank = 1

-----------------------------------------------------------------------------
\* C34: the top list of a metric with limit n holds the n accounts with the
\* highest values of the metric (all of them when there are fewer than n),
\* in descending order of the metric, and accounts with equal values come in
\* the order of their account ids.
IdOrder(u) == IF u = "u1" THEN 1 ELSE 2

TopOf(m, n) == get_ranking_data(DB, m, n).data

C34_TopListOrder ==
    \A m \in RankingTypes, n \in {k \in RankLimits : k >= 0} :
        LET top == TopOf(m, n)
            listed == {top[i].user_id : i \in DOMAIN top}
        IN /\ Len(top) = Min(n, Cardinality(DOMAIN users))
           /\ Cardinality(listed) = Len(top)
           /\ \A u \in listed, o \in DOMAIN users \ listed :
                 ~StrictlyGreater(users, o, u, m)
           /\ \A i \in DOMAIN top, j \in DOMAIN top :
                 i < j =>
                    /\ ~StrictlyGreater(users, top[j].user_id, top[i].user_id, m)
                    /\ ~StrictlyGreater(users, top[i].user_id, top[j].user_id, m)
                           => IdOrder(top[i].user_id) < IdOrder(top[j].user_id)

-----------------------------------------------------------------------------
\* C40: the two rank queries agree: for every ledger and every user with an
\* account, the money, assets and checkin ranks of the user-info page equal
\* the ranks the ranking engine reports for the metrics cash, total assets
\* and total checkins.
C40_RankQueriesAgree ==
    \A u \in DOMAIN users :
        /\ get_user_ranking(DB, u).money_rank = RankOf(u, "money").rank
        /\ get_user_ranking(DB, u).assets_rank = RankOf(u, "assets").rank
        /\ get_user_ranking(DB, u).checkin_rank = RankOf(u, "checkin").rank

-----------------------------------------------------------------------------
\* C36: the zero-day-gap branch of checkin is unreachable: whenever the
\* stored last checkin date of an account is a day d, a CheckinRecord of the
\* user for d exists, so a checkin that finds no record for today never
\* finds the last checkin date equal to today.
LastCheckinRecorded ==
    \A u \in DOMAIN users :
        /\ users[u].last_checkin # NULL
              => has_checkin_record(DB, u, users[u].last_checkin)
        /\ ~has_checkin_record(DB, u, Today) => users[u].last_checkin # Today

\* the call on connection c found no record for today and then a last
\* checkin date equal to today
ZeroGapReturn(c) ==
    /\ conns[c].op = "checkin"
    /\ conns[c].result = "AlreadyCheckedIn"
    /\ conns[c].failed_at = "read_user"

C36_ZeroGapUnreachable ==
    /\ LastCheckinRecorded
    /\ \A c \in DOMAIN conns : ~ZeroGapReturn(c)

-----------------------------------------------------------------------------
\* C37: of several checkin calls for the same user on the same day that run
\* concurrently exactly one succeeds; the uniqueness of (user, date) in the
\* checkin log makes every other call fail and leave the balances alone, so
\* the cash goes up by exactly one reward and the total checkins by 1.
C37_OneCheckinWins ==
    (\A c \in DOMAIN conns : At(c, "done", "checkin")) =>
        LET u == conns[1].user
            winners == {c \in DOMAIN conns : conns[c].result = "ok"}
            added == Appended(snap.db.checkin_records, checkin_records)
        IN /\ Cardinality(winners) = 1
           /\ \A c \in DOMAIN conns \ winners :
                 conns[c].result \in {"AlreadyCheckedIn", "SystemError"}
           /\ Len(added) = 1
           /\ added[1].user_id = u
           /\ added[1].checkin_date = Today
           /\ \E c \in winners :
                 added[1].reward_money
                     = base_reward + conns[c].random_bonus
                       + TierBonus(added[1].consecutive_days)
           /\ CashOf(users, u) = CashOf(snap.db.users, u) + added[1].reward_money
           /\ users[u].total_checkin
                 = (IF u \in DOMAIN snap.db.users
                    THEN snap.db.users[u].total_checkin ELSE 0) + 1

\* all calls have returned, and one of them had its INSERT refused after
\* another call's checkin was committed
C37_Witness ==
    /\ \A c \in DOMAIN conns : At(c, "done", "checkin")
    /\ \E c \in DOMAIN conns :
          conns[c].result = "SystemError" /\ conns[c].failed_at = "write"
    /\ \E c \in DOMAIN conns : conns[c].result = "ok"

-----------------------------------------------------------------------------
\* C38: in every reachable state the stored level of every account is the
\* level of its stored experience: a new account has level 1 and experience
\* 0, and work, the only call that changes the experience, writes the level
\* of the new experience in the same update; no other call changes either.
C38_LevelMatchesExperience ==
    /\ \A u \in DOMAIN users :
          /\ users[u].level = calculate_level(users[u].exp)
          /\ \A L \in 1..users[u].level : Threshold(L) <= users[u].exp
          /\ users[u].exp < Threshold(users[u].level + 1)
    /\ NewUser("A", 1, 0).level = 1
    /\ NewUser("A", 1, 0).exp = 0

\* a work in this run has lifted an account to a level above 1
C38_Witness ==
    /\ Len(work_records) > Len(snap.db.work_records)
    /\ \E u \in DOMAIN users :
          /\ users[u].level > 1
          /\ users[u].exp >= Threshold(users[u].level)
          /\ work_records[Len(work_records)].user_id = u

-----------------------------------------------------------------------------
\* C35: the stored robCountToday of an account is always the number of
\* RobberyRecords of the current calendar day in which the account is the
\* robber, and robbedCountToday the number in which it is the victim; both
\* are 0 again when the day has changed.
RobberiesToday(u, role) ==
    Cardinality({i \in 1..Len(robbery_records) :
                    /\ robbery_records[i].created_at \div HoursPerDay = Today
                    /\ u = IF role = "robber" THEN robbery_records[i].robber_id
                           ELSE robbery_records[i].victim_id})

C35_RobCountsOfToday ==
    \A u \in DOMAIN users :
        /\ users[u].rob_count_today = RobberiesToday(u, "robber")
        /\ users[u].robbed_count_today = RobberiesToday(u, "victim")

-----------------------------------------------------------------------------
\* C39: money is created by checkin, work and interest only: the total of
\* cash and savings over all accounts is left unchanged by every deposit,
\* withdraw, transfer and rob call, successful, failed or declined, and
\* after any sequence of calls it is the sum of the rewards of all
\* CheckinRecords, the earnings of all WorkRecords and the amounts of all
\* interest records.
RECURSIVE TotalMoney(_, _)
TotalMoney(us, ids) ==
    IF ids = {} THEN 0
    ELSE LET u == CHOOSE x \in ids : TRUE
         IN us[u].money + us[u].bank_money + TotalMoney(us, ids \ {u})

RECURSIVE MoneyCreated(_, _, _)
MoneyCreated(checkins, works, txs) ==
    IF checkins # <<>>
    THEN Head(checkins).reward_money + MoneyCreated(Tail(checkins), works, txs)
    ELSE IF works # <<>>
    THEN Head(works).total_earned + MoneyCreated(checkins, Tail(works), txs)
    ELSE IF txs # <<>>
    THEN (IF Head(txs).transaction_type = "interest" THEN Head(txs).amount ELSE 0)
         + MoneyCreated(checkins, works, Tail(txs))
    ELSE 0

MoneyAccounted ==
    TotalMoney(users, DOMAIN users)
        = MoneyCreated(checkin_records, work_records, bank_transactions)

CreatesNoMoney ==
    (/\ NewCheckin = <<>>
     /\ NewWork = <<>>
     /\ \A i \in DOMAIN NewTx : NewTx[i].transaction_type # "interest")
    => TotalMoney(users', DOMAIN users') = TotalMoney(users, DOMAIN users)

C39_MoneyConserved == [](MoneyAccounted) /\ [][CreatesNoMoney]_vars

\* the run has a deposit or a withdraw and a robbery that took money in
\* its logs, and all the money is accounted for
C39_Witness ==
    /\ \E i \in DOMAIN bank_transactions :
          /\ i > Len(snap.db.bank_transactions)
          /\ bank_transactions[i].transaction_type \in {"deposit", "withdraw"}
    /\ Len(robbery_records) > Len(snap.db.robbery_records)
    /\ robbery_records[Len(robbery_records)].amount > 0
    /\ TotalMoney(users, DOMAIN users) > 0
    /\ MoneyAccounted

====
